---- MODULE Spec2Model ----
(***************************************************************************)
(* A model of pdf_image_extract_annotate: image recovery (recover_pixmap), *)
(* the extraction filter (should_extract_image), the extraction run        *)
(* (PDFImageExtractor.extract_all_images), the annotation run              *)
(* (PDFImageWatermarker.process_pdf_with_watermarks) and the watermark     *)
(* layout (add_watermark_to_image).                                        *)
(*                                                                         *)
(* The document library (pymupdf) and the file system are collaborators:   *)
(* what they answer is drawn from small sets at the step that asks.        *)
(***************************************************************************)
EXTENDS Integers, Sequences, FiniteSets, TLC

VARIABLES
    pc,                  \* position of the running method
    method,              \* "extract" | "annotate": the method of the run
    refs_left,           \* references the documents may still list (model bound)
    config,              \* ExtractionConfig of the instance
    doc,                 \* "none" | "open" | "closed": the document handle of the run
    closes,              \* number of doc.close() calls of the run
    page_count,          \* doc.page_count
    page_num,            \* loop variable of the page loop
    image_list,          \* doc.get_page_images(page_num) of the current page
    img_index,           \* 1-based position of the next reference in image_list
    extracted_xrefs,     \* PDFImageExtractor.extracted_xrefs
    extracted_files,     \* extract_image_from_page's local list
    all_extracted_files, \* extract_all_images' all_extracted_files
    all_image_xrefs,     \* extract_all_images' all_image_xrefs (only its set of values is read)
    disk,                \* the paths and URLs stored to so far
    result,              \* what the run returned
    last,                \* what the last processed reference did (history)
    tries,               \* per xref: the page and outcome of its first recovery, the number of
                         \* recover_pixmap calls and of stores (history)
    watermark_config,    \* PDFImageWatermarker.watermark_config
    entries,             \* extract_images_from_page's local list of entries
    watermark_entries,   \* PDFImageWatermarker.watermark_entries
    page_entries_by_page, \* process_pdf_with_watermarks' dict, in insertion order
    wm_page,             \* position of the second pass in page_entries_by_page
    wm_index,            \* position of add_watermarks_to_page in the page's entries
    watermarked_count,   \* add_watermarks_to_page's counter
    total_watermarked,   \* process_pdf_with_watermarks' counter
    placed,              \* the add_watermark_to_image calls made: xref and result (history)
    call,                \* inputs of a function under test
    ret                  \* its result

vars == <<pc, method, refs_left, config, doc, closes, page_count, page_num,
          image_list, img_index, extracted_xrefs, extracted_files,
          all_extracted_files, all_image_xrefs, disk, result, last, tries,
          watermark_config, entries, watermark_entries, page_entries_by_page,
          wm_page, wm_index, watermarked_count, total_watermarked, placed, call,
          ret>>

(***************************************************************************)
(* Bounds of the model.                                                    *)
(***************************************************************************)
MaxPages == 2
MaxRefs == 2
MaxXref == 2
MaxBytes == 2
MaxFont == 2
MaxPad == 1
MaxLine == 2
MaxBox == 3
ImgSide == 2

\* The xref of the soft mask that a reference may name; never an image xref.
MaskXref == MaxXref + 1

Xrefs == 0..MaxXref

RECURSIVE SeqToSet(_)
SeqToSet(s) == IF s = <<>> THEN {} ELSE {Head(s)} \cup SeqToSet(Tail(s))

Min(a, b) == IF a < b THEN a ELSE b
Max(a, b) == IF a > b THEN a ELSE b

(***************************************************************************)
(* models.py                                                               *)
(***************************************************************************)

\* A raw tuple of doc.get_page_images: its length, whether its fields have
\* the types ImageMetadata declares, and the fields the program reads.
RawTuple(len, typed, xref, smask, width, height) ==
    [len |-> len, typed |-> typed, xref |-> xref, smask |-> smask,
     width |-> width, height |-> height]

\* ImageMetadata.from_tuple: a ValueError for a length other than 9, and
\* pydantic's ValidationError (a ValueError) for wrongly typed fields.
from_tuple(img_tuple) ==
    IF img_tuple.len # 9
    THEN [ok |-> FALSE, xref |-> 0, smask |-> 0, width |-> 0, height |-> 0]
    ELSE IF ~img_tuple.typed
    THEN [ok |-> FALSE, xref |-> 0, smask |-> 0, width |-> 0, height |-> 0]
    ELSE [ok |-> TRUE, xref |-> img_tuple.xref, smask |-> img_tuple.smask,
          width |-> img_tuple.width, height |-> img_tuple.height]

has_data(img_metadata) == img_metadata.xref # 0

has_mask(img_metadata) == img_metadata.smask > 0

min_dimension(img_metadata) == Min(img_metadata.width, img_metadata.height)

\* ExtractionConfig: rel_size is a float in [0, 1], modelled as the rational
\* rel_size / RelDen.
RelDen == 4

ExtractionConfig(dim_limit, rel_size, abs_size) ==
    [dim_limit |-> dim_limit, rel_size |-> rel_size, abs_size |-> abs_size,
     blob |-> FALSE]

\* The configuration with a blob_connection_string.
BlobConfig(cfg) == [cfg EXCEPT !.blob = TRUE]

\* ExtractionConfig.output_target
output_target(cfg) == IF cfg.blob THEN "blob" ELSE "local"

\* WatermarkConfig's defaults.
DefaultFontSize == 12
DefaultPadding == 4

(***************************************************************************)
(* extractor.py: the filter                                                *)
(***************************************************************************)

\* The density comparison turned round.
RatioAbove(length, pixel_count, rel_size) ==
    length * RelDen > rel_size * pixel_count

\* len(image_data.image) / pixel_count < rel_size, as exact rationals
\* (pixel_count > 0 is checked first).
RatioBelow(length, pixel_count, rel_size) ==
    length * RelDen < rel_size * pixel_count

\* The filter with the dimension gate exclusive at the threshold.
should_extract_image_exclusive(cfg, img_metadata, image_data) ==
    IF cfg.dim_limit > 0 /\ min_dimension(img_metadata) <= cfg.dim_limit
    THEN FALSE
    ELSE IF cfg.abs_size > 0 /\ image_data.image.len < cfg.abs_size
    THEN FALSE
    ELSE IF cfg.rel_size > 0
    THEN LET pixel_count ==
                 img_metadata.width * img_metadata.height * image_data.colorspace
         IN  IF pixel_count > 0
                /\ RatioBelow(image_data.image.len, pixel_count, cfg.rel_size)
             THEN FALSE
             ELSE TRUE
    ELSE TRUE

should_extract_image(cfg, img_metadata, image_data) ==
    IF cfg.dim_limit > 0 /\ min_dimension(img_metadata) < cfg.dim_limit
    THEN FALSE
    ELSE IF cfg.abs_size > 0 /\ image_data.image.len < cfg.abs_size
    THEN FALSE
    ELSE IF cfg.rel_size > 0
    THEN LET pixel_count ==
                 img_metadata.width * img_metadata.height * image_data.colorspace
         IN  IF pixel_count > 0
                /\ RatioBelow(image_data.image.len, pixel_count, cfg.rel_size)
             THEN FALSE
             ELSE TRUE
    ELSE TRUE

(***************************************************************************)
(* utils/image_processing.py                                               *)
(***************************************************************************)

\* What doc.extract_image(xref) answers for an image object: "ext",
\* "colorspace" and "image" (len bytes), with the alpha flag the decoded
\* pixmap has and the length enclen of the pixmap's serialisation.  An
\* object that is no image (avail FALSE) makes the lookup raise.
ImageObject(xref, ext, colorspace, alpha, len, enclen) ==
    [avail |-> TRUE, xref |-> xref, ext |-> ext, colorspace |-> colorspace,
     alpha |-> alpha, len |-> len, enclen |-> enclen]

NoObject(xref) ==
    [avail |-> FALSE, xref |-> xref, ext |-> "", colorspace |-> 0,
     alpha |-> 0, len |-> 0, enclen |-> 0]

\* The part of the document one recover_pixmap call reads: the objects at
\* the reference's xref and at the mask's xref, whether the compressed
\* object text of xref contains "/ColorSpace", and whether Pixmap(pix0, mask)
\* succeeds on them.
DocView(xref, base, mask, has_colorspace, compose_ok) ==
    [objects |-> (xref :> base) @@ (MaskXref :> mask),
     has_colorspace |-> has_colorspace, compose_ok |-> compose_ok]

\* The image bytes of an ExtractedImageData: the raw stream of an object, or
\* a pixmap serialised as fmt.
RawBytes(obj) ==
    [fmt |-> obj.ext, raw |-> TRUE, src |-> obj.xref, mask |-> 0,
     rgb |-> FALSE, alpha |-> obj.alpha, len |-> obj.len]

\* Pixmap(bytes): the decoded image; n = colorspace.n + alpha.
PixmapOf(obj) ==
    [csn |-> obj.colorspace, alpha |-> obj.alpha, src |-> obj.xref,
     mask |-> 0, rgb |-> FALSE, enclen |-> obj.enclen]

PixN(pix) == pix.csn + pix.alpha

\* Pixmap(pix, 0): a copy without the alpha channel.
PixmapDropAlpha(pix) == [pix EXCEPT !.alpha = 0]

\* The alpha channel left in place.
keep_alpha_channel(pix) == pix

handle_alpha_channel(pix) ==
    IF pix.alpha # 0 THEN PixmapDropAlpha(pix) ELSE pix

\* Pixmap(pix0, mask) raises for a base that has an alpha channel and for a
\* mask that does not fit the base (compose_ok FALSE).
CombineRaises(d, pix0) == pix0.alpha # 0 \/ ~d.compose_ok

\* Pixmap(pix0, mask): the base with the mask as its alpha channel.
PixmapCombine(pix0, mask) == [pix0 EXCEPT !.alpha = 1, !.mask = mask.src]

\* Pixmap(csRGB, pix): the pixmap converted to RGB.
PixmapToRGB(pix) == [pix EXCEPT !.csn = 3, !.rgb = TRUE]

\* pix.tobytes(ext); png holds gray and RGB only.
TobytesRaises(pix, ext) == ext = "png" /\ pix.csn > 3

Tobytes(pix, ext) ==
    [fmt |-> ext, raw |-> FALSE, src |-> pix.src, mask |-> pix.mask,
     rgb |-> pix.rgb, alpha |-> pix.alpha, len |-> pix.enclen]

NoBytes ==
    [fmt |-> "", raw |-> FALSE, src |-> 0, mask |-> 0, rgb |-> FALSE,
     alpha |-> 0, len |-> 0]

\* recover_pixmap's outcome: ok FALSE when it raised, else the
\* ExtractedImageData (ext, colorspace, image), with the tier that made it
\* and whether the mask tier fell back to the base image.
Raised(tier) ==
    [ok |-> FALSE, tier |-> tier, fallback |-> FALSE, ext |-> "",
     colorspace |-> 0, image |-> NoBytes]

ExtractedImageData(tier, fallback, ext, colorspace, image) ==
    [ok |-> TRUE, tier |-> tier, fallback |-> fallback, ext |-> ext,
     colorspace |-> colorspace, image |-> image]

\* The extension of the soft-mask tier.
MaskTierExt(pix0, pix) == IF PixN(pix0) > 3 THEN "pam" ELSE "png"

\* The soft-mask tier without the fallback: a failed composition is raised.
recover_pixmap_smask_no_fallback(d, img_metadata) ==
    LET base == d.objects[img_metadata.xref]
        mobj == d.objects[img_metadata.smask]
    IN  IF ~base.avail \/ ~mobj.avail
        THEN Raised("smask")
        ELSE LET pix0 == handle_alpha_channel(PixmapOf(base))
                 pix == PixmapCombine(pix0, PixmapOf(mobj))
                 ext == MaskTierExt(pix0, pix)
             IN  IF CombineRaises(d, pix0) \/ TobytesRaises(pix, ext)
                 THEN Raised("smask")
                 ELSE ExtractedImageData("smask", FALSE, ext, pix.csn, Tobytes(pix, ext))

recover_pixmap_smask(d, img_metadata) ==
    LET base == d.objects[img_metadata.xref]
        mobj == d.objects[img_metadata.smask]
    IN  IF ~base.avail \/ ~mobj.avail
        THEN Raised("smask")
        ELSE LET pix0 == handle_alpha_channel(PixmapOf(base))
                 mask == PixmapOf(mobj)
                 fallback == CombineRaises(d, pix0)
                 pix == IF fallback THEN PixmapOf(base)
                        ELSE PixmapCombine(pix0, mask)
                 ext == MaskTierExt(pix0, pix)
             IN  IF TobytesRaises(pix, ext)
                 THEN Raised("smask")
                 ELSE ExtractedImageData("smask", fallback, ext, pix.csn,
                                         Tobytes(pix, ext))

recover_pixmap_colorspace(d, img_metadata) ==
    LET base == d.objects[img_metadata.xref]
    IN  IF ~base.avail
        THEN Raised("colorspace")
        ELSE LET pix == PixmapToRGB(PixmapOf(base))
             IN  ExtractedImageData("colorspace", FALSE, "png", 3,
                                    Tobytes(pix, "png"))

recover_pixmap_normal(d, img_metadata) ==
    LET extracted == d.objects[img_metadata.xref]
    IN  IF ~extracted.avail
        THEN Raised("normal")
        ELSE ExtractedImageData("normal", FALSE, extracted.ext,
                                extracted.colorspace, RawBytes(extracted))

\* The tiers with the /ColorSpace test first.
recover_pixmap_colorspace_first(d, img_metadata) ==
    IF d.has_colorspace
    THEN recover_pixmap_colorspace(d, img_metadata)
    ELSE IF img_metadata.smask > 0
    THEN recover_pixmap_smask(d, img_metadata)
    ELSE recover_pixmap_normal(d, img_metadata)

recover_pixmap(d, img_metadata) ==
    IF img_metadata.smask > 0
    THEN recover_pixmap_smask(d, img_metadata)
    ELSE IF d.has_colorspace
    THEN recover_pixmap_colorspace(d, img_metadata)
    ELSE recover_pixmap_normal(d, img_metadata)

(***************************************************************************)
(* watermarker.py: the layout of one watermark                             *)
(***************************************************************************)

\* Lengths are counted in twentieths of a point, so that font_size * 0.6,
\* font_size * 1.2 and the halves of the box and of the bounding box are
\* whole numbers.
Unit == 4 * 5

\* pymupdf's Rect(x0, y0, x1, y1)
Rect(x0, y0, x1, y1) == [x0 |-> x0, y0 |-> y0, x1 |-> x1, y1 |-> y1]

\* Rect.is_empty
is_empty(r) == r.x0 >= r.x1 \/ r.y0 >= r.y1

\* text_rect & image_rect (Rect.intersect): an empty operand is the result,
\* the right one first; else the largest rectangle inside both.
RectAnd(a, b) ==
    IF is_empty(b) THEN b
    ELSE IF is_empty(a) THEN a
    ELSE Rect(Max(a.x0, b.x0), Max(a.y0, b.y0), Min(a.x1, b.x1), Min(a.y1, b.y1))

\* A WatermarkConfig; the colours are in tenths: the text is red, the
\* background white with the given alpha (the defaults of the fields).
WatermarkConfig(font_size, padding, alpha, text_format) ==
    [font_size |-> font_size, padding |-> padding, alpha |-> alpha,
     text_format |-> text_format, font_color |-> <<10, 0, 0>>,
     background_color |-> <<10, 10, 10, alpha>>]

\* An ImageWatermarkEntry: the lengths of its file name and path stand for
\* the strings; the bounding box is in points.
ImageWatermarkEntry(filepath, filename, pnum, xref, bbox_x, bbox_y, bbox_width, bbox_height) ==
    [filepath |-> filepath, filename |-> filename, page_num |-> pnum,
     xref |-> xref, bbox_x |-> bbox_x, bbox_y |-> bbox_y,
     bbox_width |-> bbox_width, bbox_height |-> bbox_height]

\* The number of decimal digits of a number below 1000.
Digits(n) == IF n < 10 THEN 1 ELSE IF n < 100 THEN 2 ELSE 3

ExtLen(ext) == IF ext = "" THEN 0 ELSE IF ext = "jpeg" THEN 4 ELSE 3

\* The length of ExtractionConfig.output_dir's default, "extracted_images".
OutDirLen == 16

\* str(n): the decimal digits of a number, the most significant first.
RECURSIVE DecimalDigits(_)
DecimalDigits(n) ==
    IF n < 10 THEN <<n>> ELSE Append(DecimalDigits(n \div 10), n % 10)

\* f"{n:0{width}d}": the digits of n with zeros in front up to width.
ZeroPad(n, width) ==
    LET dg == DecimalDigits(n)
        pad == Max(width - Len(dg), 0)
    IN  [i \in 1..(pad + Len(dg)) |-> IF i <= pad THEN 0 ELSE dg[i - pad]]

\* int(digits): the number that a sequence of decimal digits writes.
RECURSIVE DigitsValue(_)
DigitsValue(dg) ==
    IF dg = <<>> THEN 0
    ELSE 10 * DigitsValue(SubSeq(dg, 1, Len(dg) - 1)) + dg[Len(dg)]

\* f"img{xref:05d}.{ext}": the digits after "img", the extension and the
\* string's length.
Filename(xref, ext) ==
    [digits |-> ZeroPad(xref, 5), ext |-> ext,
     len |-> 3 + Len(ZeroPad(xref, 5)) + 1 + ExtLen(ext)]

\* One line of a watermark text: the field of the entry it shows and its
\* length.
TextLine(of, len) == [of |-> of, len |-> len, num |-> 0]

\* f"(Page {page_num})": the line that shows a page number.
PageLine(n) == [of |-> "page", len |-> 7 + Digits(n), num |-> n]

\* The formats known only: any other value is refused.
get_watermark_text_strict(entry, format_type) ==
    IF format_type = "filename"
    THEN <<TextLine("filename", entry.filename.len)>>
    ELSE IF format_type = "filepath"
    THEN <<TextLine("filepath", entry.filepath.len)>>
    ELSE IF format_type = "custom"
    THEN <<TextLine("filename", entry.filename.len), PageLine(entry.page_num)>>
    ELSE <<TextLine("ValueError", 0)>>

\* ImageWatermarkEntry.get_watermark_text: the lines of the text.
get_watermark_text(entry, format_type) ==
    IF format_type = "filename"
    THEN <<TextLine("filename", entry.filename.len)>>
    ELSE IF format_type = "filepath"
    THEN <<TextLine("filepath", entry.filepath.len)>>
    ELSE IF format_type = "custom"
    THEN <<TextLine("filename", entry.filename.len), PageLine(entry.page_num)>>
    ELSE <<TextLine("filename", entry.filename.len)>>

\* The box centred on the left edge of the page.
center_on_page_edge(entry) == 0

\* center_x and center_y, in units.
center_x(entry) == Unit * entry.bbox_x + (Unit \div 2) * entry.bbox_width
center_y(entry) == Unit * entry.bbox_y + (Unit \div 2) * entry.bbox_height

\* The image's rectangle, in units.
image_rect(entry) ==
    Rect(Unit * entry.bbox_x, Unit * entry.bbox_y,
         Unit * (entry.bbox_x + entry.bbox_width),
         Unit * (entry.bbox_y + entry.bbox_height))

RECURSIVE MaxOf(_)
MaxOf(s) == IF Len(s) = 1 THEN s[1] ELSE Max(s[1], MaxOf(Tail(s)))

\* The text box with the padding added on one side only.
text_box_padded_once(wm, entry, text_lines) ==
    LET box_width == MaxOf(text_lines) * wm.font_size * 12 + Unit * wm.padding
        box_height == Len(text_lines) * wm.font_size * 24 + Unit * wm.padding
    IN  Rect(center_x(entry) - box_width \div 2,
             center_y(entry) - box_height \div 2,
             center_x(entry) + box_width \div 2,
             center_y(entry) + box_height \div 2)

\* The centred text box before clipping, in units; text_lines holds the
\* length of each line of the label.
text_box(wm, entry, text_lines) ==
    LET max_line_length == MaxOf(text_lines)
        char_width == wm.font_size * 12
        line_height == wm.font_size * 24
        text_width == max_line_length * char_width
        text_height == Len(text_lines) * line_height
        box_width == text_width + 2 * Unit * wm.padding
        box_height == text_height + 2 * Unit * wm.padding
    IN  Rect(center_x(entry) - box_width \div 2,
             center_y(entry) - box_height \div 2,
             center_x(entry) + box_width \div 2,
             center_y(entry) + box_height \div 2)

\* The text box left as computed.
unclipped_box(wm, entry, text_lines) == text_box(wm, entry, text_lines)

\* The clipped text box.
clipped_box(wm, entry, text_lines) ==
    RectAnd(text_box(wm, entry, text_lines), image_rect(entry))

\* A call of page.draw_rect or page.insert_textbox: the rectangle, the
\* colour, and for the text the font size and the alignment.
DrawCall(op, r, color, fontsize, align) ==
    [op |-> op, rect |-> r, color |-> color, fontsize |-> fontsize, align |-> align]

\* page.draw_rect(text_rect, color=bg_color, fill=bg_color, width=0) with
\* bg_color = background_color[:3]
draw_rect(wm, text_rect) ==
    DrawCall("draw_rect", text_rect, SubSeq(wm.background_color, 1, 3), 0, "")

\* page.insert_textbox(text_rect, watermark_text, fontsize, color, align)
insert_textbox(wm, text_rect) ==
    DrawCall("insert_textbox", text_rect, wm.font_color, wm.font_size, "center")

\* The text drawn first and the background over it.
add_watermark_text_first(wm, entry, rect_ok, text_ok) ==
    LET watermark_text == get_watermark_text(entry, wm.text_format)
        text_lines == [i \in 1..Len(watermark_text) |-> watermark_text[i].len]
        text_rect == clipped_box(wm, entry, text_lines)
        background == IF wm.background_color[4] > 0
                      THEN <<draw_rect(wm, text_rect)>> ELSE <<>>
    IN  IF is_empty(text_rect)
        THEN [ok |-> FALSE, draws |-> <<>>]
        ELSE IF ~text_ok
        THEN [ok |-> FALSE, draws |-> <<insert_textbox(wm, text_rect)>>]
        ELSE [ok |-> wm.background_color[4] > 0 => rect_ok,
              draws |-> <<insert_textbox(wm, text_rect)>> \o background]

\* add_watermark_to_image: the value returned and the
\* draw calls issued on the page; a draw call that raises is caught and
\* makes the method return False.
add_watermark_to_image(wm, entry, rect_ok, text_ok) ==
    LET watermark_text == get_watermark_text(entry, wm.text_format)
        text_lines == [i \in 1..Len(watermark_text) |-> watermark_text[i].len]
        text_rect == clipped_box(wm, entry, text_lines)
        background == IF wm.background_color[4] > 0
                      THEN <<draw_rect(wm, text_rect)>> ELSE <<>>
    IN  IF is_empty(text_rect)
        THEN [ok |-> FALSE, draws |-> <<>>]
        ELSE IF wm.background_color[4] > 0 /\ ~rect_ok
        THEN [ok |-> FALSE, draws |-> background]
        ELSE [ok |-> text_ok,
              draws |-> background \o <<insert_textbox(wm, text_rect)>>]


(***************************************************************************)
(* What the collaborators may answer in a run.                             *)
(***************************************************************************)

\* The documents of a run: xref 0 is the reference without data, xref 1 a
\* plain image, and the xrefs from 2 on carry a soft mask.
SmaskOf(x) == IF x >= 2 THEN MaskXref ELSE 0

\* The raw tuples a page may list: an empty tuple, a short tuple, a 9-tuple
\* with wrongly typed fields, and the well-formed tuple of each xref.
MalformedTuples ==
    {RawTuple(0, FALSE, 0, 0, 0, 0),
     RawTuple(3, TRUE, 1, 0, ImgSide, ImgSide),
     RawTuple(9, FALSE, 1, 0, ImgSide, ImgSide)}

GoodTuples == {RawTuple(9, TRUE, x, SmaskOf(x), ImgSide, ImgSide) : x \in Xrefs}

RawTuples == MalformedTuples \cup GoodTuples

\* The image lists of at most n references.
ImageLists(n) == UNION {[1..k -> RawTuples] : k \in 0..n}

\* The objects the document may hold at an image's xref and at a mask's.
RunObjects(x) ==
    {NoObject(x),
     ImageObject(x, "jpeg", 3, 0, 4 * MaxBytes, 4 * MaxBytes),
     ImageObject(x, "png", 3, 1, 1, 4 * MaxBytes)}

RunMasks == {NoObject(MaskXref), ImageObject(MaskXref, "png", 1, 0, 1, 1)}

\* What the document may answer to the recover_pixmap call of a reference:
\* the answers the call does not read are fixed (without the base image the
\* mask is not read, and without the mask nothing is composed).
RunDocViews(img_tuple) ==
    IF img_tuple.smask > 0
    THEN {DocView(img_tuple.xref, base, mask, FALSE, compose_ok) :
             base \in RunObjects(img_tuple.xref) \ {NoObject(img_tuple.xref)},
             mask \in RunMasks \ {NoObject(MaskXref)}, compose_ok \in BOOLEAN}
         \cup {DocView(img_tuple.xref, base, NoObject(MaskXref), FALSE, TRUE) :
                  base \in RunObjects(img_tuple.xref)}
    ELSE {DocView(img_tuple.xref, base, NoObject(MaskXref), has_colorspace, TRUE) :
             base \in RunObjects(img_tuple.xref), has_colorspace \in BOOLEAN}

\* The policies of an extractor under test: no filter, and all three gates.
RunConfigs == {ExtractionConfig(0, 0, 0), ExtractionConfig(ImgSide, 1, 2 * MaxBytes)}

\* The policies of a watermarker under test: no filter (its default), a
\* filter that the images of the run do not pass, and blob storage.
WatermarkerConfigs ==
    {ExtractionConfig(0, 0, 0), ExtractionConfig(ImgSide + 1, 0, 0),
     BlobConfig(ExtractionConfig(0, 0, 0))}

\* What the document may answer to the recover_pixmap call of a reference in
\* an annotation run: the image is missing or a JPEG, its mask is there.
WatermarkerDocViews(img_tuple) ==
    {DocView(img_tuple.xref, base, ImageObject(MaskXref, "png", 1, 0, 1, 1), FALSE, TRUE) :
        base \in {NoObject(img_tuple.xref),
                  ImageObject(img_tuple.xref, "jpeg", 3, 0, 4 * MaxBytes, 4 * MaxBytes)}}

\* What storing may answer: the SDK is installed or not, and the upload and
\* the local write succeed or raise (a local target asks for no upload, and
\* there is no upload without the SDK).
StoreAnswers(target) ==
    {a \in [sdk : BOOLEAN, upload_ok : BOOLEAN, write_ok : BOOLEAN] :
        /\ a.upload_ok => a.sdk
        /\ target = "local" => ~a.sdk}

\* What page.get_image_rects may answer: it raises, or it returns no, one
\* or two rectangles (x0, y0, width, height, in points).
PlacementRect(x0, y0, width, height) ==
    [x0 |-> x0, y0 |-> y0, width |-> width, height |-> height]

RectAnswers ==
    {[ok |-> FALSE, rects |-> <<>>],
     [ok |-> TRUE, rects |-> <<>>],
     [ok |-> TRUE, rects |-> <<PlacementRect(1, 0, MaxBox, MaxBox)>>],
     [ok |-> TRUE, rects |-> <<PlacementRect(1, 0, MaxBox, MaxBox),
                              PlacementRect(0, 1, 0, MaxBox)>>]}

(***************************************************************************)
(* utils/blob_storage.py                                                   *)
(***************************************************************************)

\* The page directory numbered from zero.
page_path_zero_based(pnum, filename) ==
    [page |-> pnum, name |-> filename, remote |-> FALSE,
     len |-> OutDirLen + 13 + Digits(pnum) + 1 + filename.len]

\* join(output_dir, "images", f"page_{page_num + 1}", filename)
PagePath(pnum, filename) ==
    [page |-> pnum + 1, name |-> filename, remote |-> FALSE,
     len |-> OutDirLen + 13 + Digits(pnum + 1) + 1 + filename.len]

NoPath == [page |-> 0, name |-> Filename(0, ""), remote |-> FALSE, len |-> 0]

\* The URL of an uploaded blob.
BlobUrl(pnum, filename) ==
    [page |-> pnum + 1, name |-> filename, remote |-> TRUE,
     len |-> OutDirLen + 13 + Digits(pnum + 1) + 1 + filename.len]

\* What a store gives back: whether it returned (else the error raised), the
\* path or URL returned, whether a local file was written and with which
\* bytes, whether the blob was uploaded, and how many uploads were tried.
StoreResult(ok, error, path, wrote, written, uploaded, uploads) ==
    [ok |-> ok, error |-> error, path |-> path, wrote |-> wrote,
     written |-> written, uploaded |-> uploaded, uploads |-> uploads]

\* store_image_to_blob: ImportError without the SDK, the client's error when
\* the upload fails, else the blob's URL.
store_image_to_blob(pnum, filename, answer) ==
    IF ~answer.sdk
    THEN [ok |-> FALSE, error |-> "ImportError", url |-> NoPath]
    ELSE IF ~answer.upload_ok
    THEN [ok |-> FALSE, error |-> "Exception", url |-> NoPath]
    ELSE [ok |-> TRUE, error |-> "", url |-> BlobUrl(pnum, filename)]

\* open(join(config.output_dir, filename), "wb") and f.write(image_data),
\* for the file name images/page_<pnum + 1>/<filename>.
LocalWrite(image_data, pnum, filename, answer, uploads) ==
    IF answer.write_ok
    THEN StoreResult(TRUE, "", PagePath(pnum, filename), TRUE, image_data, FALSE, uploads)
    ELSE StoreResult(FALSE, "OSError", PagePath(pnum, filename), FALSE, NoBytes, FALSE,
                     uploads)

\* A target that is not known is stored locally.
store_unknown_as_local(target, image_data, pnum, filename, answer) ==
    IF target = "blob"
    THEN LET up == store_image_to_blob(pnum, filename, answer)
         IN  IF up.ok
             THEN StoreResult(TRUE, "", up.url, FALSE, NoBytes, TRUE, 1)
             ELSE LocalWrite(image_data, pnum, filename, answer, 1)
    ELSE LocalWrite(image_data, pnum, filename, answer, 0)

\* The upload's error is raised, with no fallback.
store_blob_no_fallback(target, image_data, pnum, filename, answer) ==
    IF target = "local"
    THEN LocalWrite(image_data, pnum, filename, answer, 0)
    ELSE IF target = "blob"
    THEN LET up == store_image_to_blob(pnum, filename, answer)
         IN  IF up.ok
             THEN StoreResult(TRUE, "", up.url, FALSE, NoBytes, TRUE, 1)
             ELSE StoreResult(FALSE, up.error, NoPath, FALSE, NoBytes, FALSE, 1)
    ELSE StoreResult(FALSE, "ValueError", NoPath, FALSE, NoBytes, FALSE, 0)

\* store_image_to_target for the file of a page.
store_image_to_target(target, image_data, pnum, filename, answer) ==
    IF target = "local"
    THEN LocalWrite(image_data, pnum, filename, answer, 0)
    ELSE IF target = "blob"
    THEN LET up == store_image_to_blob(pnum, filename, answer)
         IN  IF up.ok
             THEN StoreResult(TRUE, "", up.url, FALSE, NoBytes, TRUE, 1)
             ELSE LocalWrite(image_data, pnum, filename, answer, 1)
    ELSE StoreResult(FALSE, "ValueError", NoPath, FALSE, NoBytes, FALSE, 0)

(***************************************************************************)
(* extractor.py: the extraction run                                        *)
(***************************************************************************)

NoMetadata == [ok |-> FALSE, xref |-> 0, smask |-> 0, width |-> 0, height |-> 0]

NoEntry == ImageWatermarkEntry(NoPath, NoPath.name, 0, 0, 0, 0, 0, 0)

\* The record of one processed reference: how it ended, the metadata parsed,
\* what recover_pixmap gave (tier "none" when it was not called), the path
\* stored to (stored: whether the bytes were stored), the entry made and
\* the answers the document gave to recover_pixmap.
NoView == DocView(0, NoObject(0), NoObject(MaskXref), FALSE, TRUE)

Outcome(kind, pnum, meta, recovered, path, stored, entry) ==
    [kind |-> kind, page |-> pnum, meta |-> meta, recovered |-> recovered,
     path |-> path, stored |-> stored, entry |-> entry, view |-> NoView]

\* The outcome of a pass that called recover_pixmap on the answers d.
Viewed(o, d) == [o EXCEPT !.view = d]

NoOutcome == Outcome("none", 0, NoMetadata, Raised("none"), NoPath, FALSE, NoEntry)

NoTry == [page |-> -1, kind |-> "none", recovers |-> 0, stores |-> 0]

NoResult ==
    [kind |-> "none", total_pages |-> 0, unique_images_found |-> 0,
     images_extracted |-> 0, images_watermarked |-> 0, extracted_files |-> <<>>]

\* No result: the call raised the error.
Raise(error) == [NoResult EXCEPT !.kind = error]

\* The try block with a failed write left uncaught.
extract_recovered_uncaught(cfg, pnum, img_metadata, d, write_ok) ==
    LET image_data == recover_pixmap(d, img_metadata)
        filepath == PagePath(pnum, Filename(img_metadata.xref, image_data.ext))
    IN  Viewed(IF ~image_data.ok
               THEN Outcome("recover_error", pnum, img_metadata, image_data, NoPath,
                            FALSE, NoEntry)
               ELSE IF ~should_extract_image(cfg, img_metadata, image_data)
               THEN Outcome("filtered", pnum, img_metadata, image_data, NoPath,
                            FALSE, NoEntry)
               ELSE IF ~write_ok
               THEN Outcome("uncaught", pnum, img_metadata, image_data, filepath,
                            FALSE, NoEntry)
               ELSE Outcome("stored", pnum, img_metadata, image_data, filepath,
                            TRUE, NoEntry),
               d)

\* extract_image_from_page, lines 94-126: recovery, the filter and the write
\* for a reference that passed the tests; every exception is caught.
extract_recovered(cfg, pnum, img_metadata, d, write_ok) ==
    LET image_data == recover_pixmap(d, img_metadata)
        filepath == PagePath(pnum, Filename(img_metadata.xref, image_data.ext))
    IN  Viewed(IF ~image_data.ok
               THEN Outcome("recover_error", pnum, img_metadata, image_data, NoPath,
                            FALSE, NoEntry)
               ELSE IF ~should_extract_image(cfg, img_metadata, image_data)
               THEN Outcome("filtered", pnum, img_metadata, image_data, NoPath,
                            FALSE, NoEntry)
               ELSE IF ~write_ok
               THEN Outcome("store_error", pnum, img_metadata, image_data, filepath,
                            FALSE, NoEntry)
               ELSE Outcome("stored", pnum, img_metadata, image_data, filepath,
                            TRUE, NoEntry),
               d)

\* The loop body without the test for a duplicate.
extract_step_no_dedup(cfg, xrefs, pnum, img_tuple, d, write_ok) ==
    LET img_metadata == from_tuple(img_tuple)
    IN  IF ~img_metadata.ok
        THEN Outcome("parse_error", pnum, NoMetadata, Raised("none"), NoPath, FALSE, NoEntry)
        ELSE IF ~has_data(img_metadata)
        THEN Outcome("no_data", pnum, img_metadata, Raised("none"), NoPath, FALSE, NoEntry)
        ELSE extract_recovered(cfg, pnum, img_metadata, d, write_ok)

\* The loop body without the test for a reference with no data.
extract_step_no_data_test(cfg, xrefs, pnum, img_tuple, d, write_ok) ==
    LET img_metadata == from_tuple(img_tuple)
    IN  IF ~img_metadata.ok
        THEN Outcome("parse_error", pnum, NoMetadata, Raised("none"), NoPath, FALSE, NoEntry)
        ELSE IF img_metadata.xref \in SeqToSet(xrefs)
        THEN Outcome("duplicate", pnum, img_metadata, Raised("none"), NoPath, FALSE, NoEntry)
        ELSE extract_recovered(cfg, pnum, img_metadata, d, write_ok)

\* One pass of extract_image_from_page's loop body over img_tuple: the
\* outcome, decided by the collaborators' answers d and write_ok.
extract_image_from_page_step(cfg, xrefs, pnum, img_tuple, d, write_ok) ==
    LET img_metadata == from_tuple(img_tuple)
    IN  IF ~img_metadata.ok
        THEN Outcome("parse_error", pnum, NoMetadata, Raised("none"), NoPath, FALSE, NoEntry)
        ELSE IF img_metadata.xref \in SeqToSet(xrefs)
        THEN Outcome("duplicate", pnum, img_metadata, Raised("none"), NoPath, FALSE, NoEntry)
        ELSE IF ~has_data(img_metadata)
        THEN Outcome("no_data", pnum, img_metadata, Raised("none"), NoPath, FALSE, NoEntry)
        ELSE extract_recovered(cfg, pnum, img_metadata, d, write_ok)

\* extracted_xrefs left as it was.
xrefs_unrecorded(xrefs, o) == xrefs

\* The xref recorded as soon as its recovery was attempted.
xrefs_recorded_on_attempt(xrefs, o) ==
    IF o.recovered.tier # "none" THEN Append(xrefs, o.meta.xref) ELSE xrefs

\* extracted_xrefs after a pass of either loop body: the xref is appended
\* when a file was written (extractor) or an entry made (watermarker).
XrefsAfter(xrefs, o) ==
    IF o.kind \in {"stored", "tracked"} THEN Append(xrefs, o.meta.xref) ELSE xrefs

\* Whether the loop body called recover_pixmap.
CalledRecover(o) == o.recovered.tier # "none"

\* The history of an xref after the outcome o of one of its references.
Tries(t, o) ==
    IF ~CalledRecover(o) THEN t
    ELSE [t EXCEPT ![o.meta.xref] =
             [page |-> IF @.page = -1 THEN o.page ELSE @.page,
              kind |-> IF @.page = -1 THEN o.kind ELSE @.kind,
              recovers |-> @.recovers + 1,
              stores |-> @.stores + (IF o.stored THEN 1 ELSE 0)]]

NoCall == [fn |-> "none"]
NoRet == [done |-> FALSE]

\* A fresh instance about to run method m under one of the policies.
Fresh(m, configs) ==
    /\ pc = "ready"
    /\ method = m
    /\ config \in configs
    /\ watermark_config = WatermarkConfig(DefaultFontSize, DefaultPadding, 8, "filename")
    /\ refs_left = MaxRefs
    /\ doc = "none"
    /\ closes = 0
    /\ page_count = 0
    /\ page_num = 0
    /\ image_list = <<>>
    /\ img_index = 1
    /\ extracted_xrefs = <<>>
    /\ extracted_files = <<>>
    /\ all_extracted_files = <<>>
    /\ all_image_xrefs = {}
    /\ entries = <<>>
    /\ watermark_entries = <<>>
    /\ page_entries_by_page = <<>>
    /\ wm_page = 1
    /\ wm_index = 1
    /\ watermarked_count = 0
    /\ total_watermarked = 0
    /\ placed = <<>>
    /\ disk = {}
    /\ result = NoResult
    /\ last = NoOutcome
    /\ tries = [x \in Xrefs |-> NoTry]
    /\ call = NoCall
    /\ ret = NoRet

\* A fresh PDFImageExtractor about to run extract_all_images.
Init == Fresh("extract", RunConfigs)

pure == <<call, ret>>

\* What the second pass of the annotation run reads and writes.
marks == <<entries, watermark_entries, page_entries_by_page, wm_page, wm_index,
           watermarked_count, total_watermarked, placed>>

\* The document left open.
close_skipped(n) == n

\* doc.close() in the finally clause of extract_all_images: the number of
\* close calls made on the document so far.
doc_close(n) == n + 1

\* extract_all_images, lines 132-145: a missing file raises before anything
\* is opened; else the document is opened and the page loop starts.
ExtractAllImages ==
    /\ pc = "ready"
    /\ method = "extract"
    /\ \E exists \in BOOLEAN :
          IF ~exists
          THEN /\ pc' = "raised"
               /\ doc' = "none"
               /\ page_count' = 0
               /\ result' = Raise("FileNotFoundError")
          ELSE /\ pc' = "page"
               /\ doc' = "open"
               /\ page_count' \in 0..MaxPages
               /\ result' = result
    /\ UNCHANGED <<method, refs_left, config, watermark_config, closes, page_num,
                   image_list, img_index, extracted_xrefs, extracted_files,
                   all_extracted_files, all_image_xrefs, disk, last,
                   tries, marks, pure>>

\* extract_all_images, lines 147-155: the head of one page: the page's
\* references are listed (the collaborator may raise), img[0] of each is
\* collected (an empty tuple raises IndexError), and
\* extract_image_from_page lists the page again (line 74: the document
\* answers the same) and starts on the list.  An exception leaves through
\* the finally clause.
ExtractPage ==
    /\ pc = "page"
    /\ method = "extract"
    /\ page_num < page_count
    /\ \E listed \in BOOLEAN, lst \in ImageLists(refs_left) :
          /\ listed \/ lst = <<>>
          /\ image_list' = lst
          /\ refs_left' = refs_left - Len(lst)
          /\ IF ~listed \/ \E i \in 1..Len(lst) : lst[i].len = 0
             THEN /\ pc' = "raised"
                  /\ doc' = "closed"
                  /\ closes' = doc_close(closes)
                  /\ all_image_xrefs' = all_image_xrefs
             ELSE /\ pc' = "ref"
                  /\ all_image_xrefs' =
                         all_image_xrefs \cup {lst[i].xref : i \in 1..Len(lst)}
                  /\ UNCHANGED <<doc, closes>>
    /\ img_index' = 1
    /\ extracted_files' = <<>>
    /\ UNCHANGED <<method, config, watermark_config, page_count, page_num,
                   extracted_xrefs, all_extracted_files, disk, result, last,
                   tries, marks, pure>>

\* extract_image_from_page, lines 77-126: one pass of the loop body.  An
\* exception that the loop body does not catch would leave
\* extract_all_images through its finally clause.
ExtractRef ==
    /\ pc = "ref"
    /\ method = "extract"
    /\ img_index <= Len(image_list)
    /\ LET img_tuple == image_list[img_index]
       IN  \E d \in RunDocViews(img_tuple), write_ok \in BOOLEAN :
              LET o == extract_image_from_page_step(config, extracted_xrefs, page_num,
                                                    img_tuple, d, write_ok)
              IN  /\ last' = o
                  /\ tries' = Tries(tries, o)
                  /\ extracted_xrefs' = XrefsAfter(extracted_xrefs, o)
                  /\ extracted_files' = IF o.kind = "stored"
                                        THEN Append(extracted_files, o.path)
                                        ELSE extracted_files
                  /\ disk' = IF o.stored THEN disk \cup {o.path} ELSE disk
                  /\ IF o.kind = "uncaught"
                     THEN /\ pc' = "raised"
                          /\ doc' = "closed"
                          /\ closes' = doc_close(closes)
                     ELSE UNCHANGED <<pc, doc, closes>>
    /\ img_index' = img_index + 1
    /\ UNCHANGED <<method, refs_left, config, watermark_config, page_count,
                   page_num, image_list, all_extracted_files, all_image_xrefs,
                   result, marks, pure>>

\* The page's files put before the run's.
extend_front(all_files, files) == files \o all_files

\* all_extracted_files.extend(extracted_files), line 156
extend(all_files, files) == all_files \o files

\* extract_image_from_page returns and line 156 extends the run's list.
ExtractPageEnd ==
    /\ pc = "ref"
    /\ method = "extract"
    /\ img_index > Len(image_list)
    /\ all_extracted_files' = extend(all_extracted_files, extracted_files)
    /\ page_num' = page_num + 1
    /\ pc' = "page"
    /\ UNCHANGED <<method, refs_left, config, watermark_config, doc, closes,
                   page_count, image_list, img_index, extracted_xrefs,
                   extracted_files, all_image_xrefs, disk, result, last, tries,
                   marks, pure>>

\* extract_all_images, lines 158-177: the statistics, and the finally clause.
ExtractReturn ==
    /\ pc = "page"
    /\ method = "extract"
    /\ page_num = page_count
    /\ result' = [kind |-> "extract", total_pages |-> page_count,
                  unique_images_found |-> Cardinality(all_image_xrefs),
                  images_extracted |-> Len(extracted_xrefs),
                  images_watermarked |-> 0,
                  extracted_files |-> all_extracted_files]
    /\ doc' = "closed"
    /\ closes' = doc_close(closes)
    /\ pc' = "returned"
    /\ UNCHANGED <<method, refs_left, config, watermark_config, page_count,
                   page_num, image_list, img_index, extracted_xrefs,
                   extracted_files, all_extracted_files, all_image_xrefs, disk,
                   last, tries, marks, pure>>

Next ==
    \/ ExtractAllImages
    \/ ExtractPage
    \/ ExtractRef
    \/ ExtractPageEnd
    \/ ExtractReturn

Spec == Init /\ [][Next]_vars

(***************************************************************************)
(* watermarker.py: the annotation run                                      *)
(***************************************************************************)

\* The rectangle returned last.
last_rect(image_rects) == image_rects[Len(image_rects)]

\* image_rects[0], line 115: of several placements the first is used.
first_rect(image_rects) == image_rects[1]

\* extract_and_track_image: the outcome for a reference that passed the
\* tests of extract_images_from_page.  Every exception is caught and gives
\* None; the bytes stored before it stay stored.
extract_and_track_image(cfg, pnum, img_metadata, d, answer, rect) ==
    LET image_data == recover_pixmap(d, img_metadata)
        first == first_rect(rect.rects)
        filename == Filename(img_metadata.xref, image_data.ext)
        target == output_target(cfg)
        stored == IF target = "local"
                  THEN [ok |-> answer.write_ok, path |-> PagePath(pnum, filename),
                        wrote |-> answer.write_ok, uploaded |-> FALSE]
                  ELSE store_image_to_target(target, image_data.image, pnum, filename,
                                              answer)
    IN  Viewed(IF ~image_data.ok
               THEN Outcome("recover_error", pnum, img_metadata, image_data, NoPath,
                            FALSE, NoEntry)
               ELSE IF ~should_extract_image(cfg, img_metadata, image_data)
               THEN Outcome("filtered", pnum, img_metadata, image_data, NoPath,
                            FALSE, NoEntry)
               ELSE IF ~stored.ok
               THEN Outcome("store_error", pnum, img_metadata, image_data,
                            stored.path, FALSE, NoEntry)
               ELSE IF ~rect.ok
               THEN Outcome("rect_error", pnum, img_metadata, image_data,
                            stored.path, TRUE, NoEntry)
               ELSE IF rect.rects = <<>>
               THEN Outcome("no_rect", pnum, img_metadata, image_data,
                            stored.path, TRUE, NoEntry)
               ELSE Outcome("tracked", pnum, img_metadata, image_data, stored.path, TRUE,
                            ImageWatermarkEntry(stored.path, filename, pnum + 1,
                                                img_metadata.xref,
                                                first.x0, first.y0, first.width,
                                                first.height)),
               d)

\* The loop body without the test for an xref extracted before.
extract_images_from_page_no_dedup(cfg, xrefs, pnum, img_tuple, d, answer, rect) ==
    LET img_metadata == from_tuple(img_tuple)
    IN  IF ~img_metadata.ok
        THEN Outcome("parse_error", pnum, NoMetadata, Raised("none"), NoPath, FALSE, NoEntry)
        ELSE IF ~has_data(img_metadata)
        THEN Outcome("no_data", pnum, img_metadata, Raised("none"), NoPath, FALSE, NoEntry)
        ELSE extract_and_track_image(cfg, pnum, img_metadata, d, answer, rect)

\* One pass of extract_images_from_page's loop body over img_tuple.
extract_images_from_page_step(cfg, xrefs, pnum, img_tuple, d, answer, rect) ==
    LET img_metadata == from_tuple(img_tuple)
    IN  IF ~img_metadata.ok
        THEN Outcome("parse_error", pnum, NoMetadata, Raised("none"), NoPath, FALSE, NoEntry)
        ELSE IF img_metadata.xref \in SeqToSet(xrefs)
        THEN Outcome("duplicate", pnum, img_metadata, Raised("none"), NoPath, FALSE, NoEntry)
        ELSE IF ~has_data(img_metadata)
        THEN Outcome("no_data", pnum, img_metadata, Raised("none"), NoPath, FALSE, NoEntry)
        ELSE extract_and_track_image(cfg, pnum, img_metadata, d, answer, rect)

\* What the first pass of the annotation run does not touch.
extraction == <<extracted_files, all_extracted_files, all_image_xrefs>>

\* process_pdf_with_watermarks, lines 159-181: with no PDF source it raises
\* before anything is opened; else the document is opened.
ProcessPdfWithWatermarks ==
    /\ pc = "ready"
    /\ method = "annotate"
    /\ \E exists \in BOOLEAN :
          IF ~exists
          THEN /\ pc' = "raised"
               /\ doc' = "none"
               /\ page_count' = 0
               /\ result' = Raise("ValueError")
          ELSE /\ pc' = "page"
               /\ doc' = "open"
               /\ page_count' \in 0..MaxPages
               /\ result' = result
    /\ UNCHANGED <<method, refs_left, config, watermark_config, closes, page_num,
                   image_list, img_index, extracted_xrefs, disk, last,
                   tries, extraction, marks, pure>>

\* extract_images_from_page, lines 225-229: the page's references are
\* listed; if the collaborator raises, process_pdf_with_watermarks closes
\* the document and raises.
AnnotatePage ==
    /\ pc = "page"
    /\ method = "annotate"
    /\ page_num < page_count
    /\ \E listed \in BOOLEAN, lst \in ImageLists(refs_left) :
          /\ listed \/ lst = <<>>
          /\ image_list' = lst
          /\ refs_left' = refs_left - Len(lst)
          /\ IF ~listed
             THEN /\ pc' = "raised"
                  /\ doc' = "closed"
                  /\ closes' = closes + 1
             ELSE /\ pc' = "ref"
                  /\ UNCHANGED <<doc, closes>>
    /\ img_index' = 1
    /\ entries' = <<>>
    /\ UNCHANGED <<method, config, watermark_config, page_count, page_num,
                   extracted_xrefs, disk, result, last, tries, extraction,
                   watermark_entries, page_entries_by_page, wm_page, wm_index,
                   watermarked_count, total_watermarked, placed, pure>>

\* extract_images_from_page, lines 231-251: one pass of the loop body.
AnnotateRef ==
    /\ pc = "ref"
    /\ method = "annotate"
    /\ img_index <= Len(image_list)
    /\ LET img_tuple == image_list[img_index]
       IN  \E o \in {extract_images_from_page_step(config, extracted_xrefs, page_num,
                                                   img_tuple, d, answer, rect) :
                        d \in WatermarkerDocViews(img_tuple),
                        answer \in StoreAnswers(output_target(config)),
                        rect \in RectAnswers} :
                  /\ last' = o
                  /\ tries' = Tries(tries, o)
                  /\ disk' = IF o.stored THEN disk \cup {o.path} ELSE disk
                  /\ extracted_xrefs' = XrefsAfter(extracted_xrefs, o)
                  /\ entries' = IF o.kind = "tracked" THEN Append(entries, o.entry)
                                ELSE entries
    /\ img_index' = img_index + 1
    /\ UNCHANGED <<pc, method, refs_left, config, watermark_config, doc, closes,
                   page_count, page_num, image_list, result, extraction,
                   watermark_entries, page_entries_by_page, wm_page, wm_index,
                   watermarked_count, total_watermarked, placed, pure>>

\* process_pdf_with_watermarks, lines 186-191: the page's entries join the
\* run's, and a page with entries is noted for the second pass.
AnnotatePageEnd ==
    /\ pc = "ref"
    /\ method = "annotate"
    /\ img_index > Len(image_list)
    /\ watermark_entries' = watermark_entries \o entries
    /\ page_entries_by_page' =
           IF entries # <<>>
           THEN Append(page_entries_by_page, [page_num |-> page_num, entries |-> entries])
           ELSE page_entries_by_page
    /\ page_num' = page_num + 1
    /\ pc' = "page"
    /\ UNCHANGED <<method, refs_left, config, watermark_config, doc, closes,
                   page_count, image_list, img_index, extracted_xrefs, disk,
                   result, last, tries, extraction, entries, wm_page, wm_index,
                   watermarked_count, total_watermarked, placed, pure>>

\* The second loop entered while pages are left to extract.
extraction_pending == page_num <= page_count

\* process_pdf_with_watermarks, lines 183-191: the first loop has gone
\* through range(page_count) before line 198 is reached.
extraction_done == page_num = page_count

\* process_pdf_with_watermarks, lines 198-200, and add_watermarks_to_page,
\* line 259: the second pass reaches the next page that has entries.
WatermarkPage ==
    /\ pc \in {"page", "marks"}
    /\ method = "annotate"
    /\ extraction_done
    /\ wm_page <= Len(page_entries_by_page)
    /\ pc' = "mark"
    /\ wm_index' = 1
    /\ watermarked_count' = 0
    /\ UNCHANGED <<method, refs_left, config, watermark_config, doc, closes,
                   page_count, page_num, image_list, img_index, extracted_xrefs,
                   disk, result, last, tries, extraction, entries,
                   watermark_entries, page_entries_by_page, wm_page,
                   total_watermarked, placed, pure>>

\* Every placement counted, the failed ones too.
count_every_placement(count, ok) == count + 1

\* add_watermarks_to_page, lines 266-267: a placement that returned True is
\* counted.
count_watermarked(count, ok) == IF ok THEN count + 1 ELSE count

\* add_watermarks_to_page, lines 265-267: one entry of the page.
WatermarkEntry ==
    /\ pc = "mark"
    /\ wm_index <= Len(page_entries_by_page[wm_page].entries)
    /\ \E rect_ok \in BOOLEAN, text_ok \in BOOLEAN :
          LET marked == add_watermark_to_image(
                            watermark_config,
                            page_entries_by_page[wm_page].entries[wm_index],
                            rect_ok, text_ok)
          IN  /\ watermarked_count' = count_watermarked(watermarked_count, marked.ok)
              /\ placed' = Append(placed,
                                  [xref |-> page_entries_by_page[wm_page].entries[wm_index].xref,
                                   page |-> page_entries_by_page[wm_page].page_num,
                                   ok |-> marked.ok])
    /\ wm_index' = wm_index + 1
    /\ UNCHANGED <<pc, method, refs_left, config, watermark_config, doc, closes,
                   page_count, page_num, image_list, img_index, extracted_xrefs,
                   disk, result, last, tries, extraction, entries,
                   watermark_entries, page_entries_by_page, wm_page,
                   total_watermarked, pure>>

\* add_watermarks_to_page returns and line 202 adds its count.
WatermarkPageEnd ==
    /\ pc = "mark"
    /\ wm_index > Len(page_entries_by_page[wm_page].entries)
    /\ total_watermarked' = total_watermarked + watermarked_count
    /\ wm_page' = wm_page + 1
    /\ pc' = "marks"
    /\ UNCHANGED <<method, refs_left, config, watermark_config, doc, closes,
                   page_count, page_num, image_list, img_index, extracted_xrefs,
                   disk, result, last, tries, extraction, entries,
                   watermark_entries, page_entries_by_page, wm_index,
                   watermarked_count, placed, pure>>

\* process_pdf_with_watermarks, lines 204-215: the result; the document is
\* handed over open.
AnnotateReturn ==
    /\ pc \in {"page", "marks"}
    /\ method = "annotate"
    /\ extraction_done
    /\ wm_page > Len(page_entries_by_page)
    /\ result' = [kind |-> "annotate", total_pages |-> page_count,
                  unique_images_found |-> 0,
                  images_extracted |-> Len(watermark_entries),
                  images_watermarked |-> total_watermarked,
                  extracted_files |-> <<>>]
    /\ pc' = "returned"
    /\ UNCHANGED <<method, refs_left, config, watermark_config, doc, closes,
                   page_count, page_num, image_list, img_index, extracted_xrefs,
                   disk, last, tries, extraction, marks, pure>>

\* A fresh PDFImageWatermarker about to run process_pdf_with_watermarks.
InitAnnotate == Fresh("annotate", WatermarkerConfigs)

NextAnnotate ==
    \/ ProcessPdfWithWatermarks
    \/ AnnotatePage
    \/ AnnotateRef
    \/ AnnotatePageEnd
    \/ WatermarkPage
    \/ WatermarkEntry
    \/ WatermarkPageEnd
    \/ AnnotateReturn

SpecAnnotate == InitAnnotate /\ [][NextAnnotate]_vars

(***************************************************************************)
(* The functions on their own: the inputs are drawn at the start and one   *)
(* step applies the function.                                              *)
(***************************************************************************)

run == <<pc, method, refs_left, config, doc, closes, page_count, page_num,
         image_list, img_index, extracted_xrefs, extracted_files,
         all_extracted_files, all_image_xrefs, disk, result, last, tries,
         watermark_config, entries, watermark_entries, page_entries_by_page,
         wm_page, wm_index, watermarked_count, total_watermarked, placed>>

\* No run is going on.
NoRun ==
    /\ pc = "idle"
    /\ method = "none"
    /\ refs_left = 0
    /\ config = ExtractionConfig(0, 0, 0)
    /\ doc = "none"
    /\ closes = 0
    /\ page_count = 0
    /\ page_num = 0
    /\ image_list = <<>>
    /\ img_index = 1
    /\ extracted_xrefs = <<>>
    /\ extracted_files = <<>>
    /\ all_extracted_files = <<>>
    /\ all_image_xrefs = {}
    /\ disk = {}
    /\ result = NoResult
    /\ last = NoOutcome
    /\ tries = [x \in Xrefs |-> NoTry]
    /\ watermark_config = WatermarkConfig(DefaultFontSize, DefaultPadding, 8, "filename")
    /\ entries = <<>>
    /\ watermark_entries = <<>>
    /\ page_entries_by_page = <<>>
    /\ wm_page = 1
    /\ wm_index = 1
    /\ watermarked_count = 0
    /\ total_watermarked = 0
    /\ placed = <<>>

\* should_extract_image: any policy, any dimensions (a negative width too),
\* any channel count and length of the image bytes.
FilterConfigs ==
    {ExtractionConfig(d, r, a) : d \in 0..(ImgSide + 1), r \in 0..RelDen, a \in 0..MaxBytes}

FilterMetadata ==
    {[ok |-> TRUE, xref |-> 1, smask |-> 0, width |-> w, height |-> h] :
        w \in -1..ImgSide, h \in 0..ImgSide}

FilterImages ==
    {ExtractedImageData("normal", FALSE, "jpeg", cs,
                        RawBytes(ImageObject(1, "jpeg", cs, 0, l, l))) :
        cs \in {1, 3}, l \in 0..(MaxBytes + 1)}

InitFilter ==
    /\ NoRun
    /\ call \in {[fn |-> "should_extract_image", cfg |-> c, img_metadata |-> m,
                  image_data |-> i] :
                    c \in FilterConfigs, m \in FilterMetadata, i \in FilterImages}
    /\ ret = NoRet

\* The policies that differ from cfg in one threshold, which they raise.
RaisedConfigs(cfg) ==
    {[cfg EXCEPT !.dim_limit = d] : d \in (cfg.dim_limit + 1)..(ImgSide + 2)}
    \cup {[cfg EXCEPT !.abs_size = a] : a \in (cfg.abs_size + 1)..(MaxBytes + 2)}
    \cup {[cfg EXCEPT !.rel_size = r] : r \in (cfg.rel_size + 1)..RelDen}

\* The filter applied to the inputs under the policy and under a raised one.
ApplyFilter ==
    /\ call.fn = "should_extract_image"
    /\ ~ret.done
    /\ \E cfg2 \in RaisedConfigs(call.cfg) :
          ret' = [done |-> TRUE,
                  accept |-> should_extract_image(call.cfg, call.img_metadata,
                                                  call.image_data),
                  raised |-> cfg2,
                  accept_raised |-> should_extract_image(cfg2, call.img_metadata,
                                                         call.image_data)]
    /\ UNCHANGED <<call, run>>

SpecFilter == InitFilter /\ [][ApplyFilter]_vars

\* recover_pixmap: a reference with or without a soft mask, and any answers
\* of the document.
RecoverObjects(x) ==
    {NoObject(x)} \cup
    {ImageObject(x, ext, cs, a, 1, 2) :
        ext \in {"jpeg", "png"}, cs \in {1, 3, 4}, a \in {0, 1}}

InitRecover ==
    /\ NoRun
    /\ call \in {[fn |-> "recover_pixmap",
                  img_metadata |-> [ok |-> TRUE, xref |-> 1, smask |-> m,
                                    width |-> ImgSide, height |-> ImgSide],
                  d |-> DocView(1, base, mask, has_colorspace, compose_ok)] :
                    m \in {0, MaskXref}, base \in RecoverObjects(1),
                    mask \in RecoverObjects(MaskXref),
                    has_colorspace \in BOOLEAN, compose_ok \in BOOLEAN}
    /\ ret = NoRet

ApplyRecover ==
    /\ call.fn = "recover_pixmap"
    /\ ~ret.done
    /\ ret' = [done |-> TRUE, out |-> recover_pixmap(call.d, call.img_metadata)]
    /\ UNCHANGED <<call, run>>

SpecRecover == InitRecover /\ [][ApplyRecover]_vars

\* add_watermark_to_image: any style, any label length (a file name shorter
\* or longer than the 8 characters of "(Page 1)"), and bounding boxes with
\* sides from zero up.
LayoutConfigs ==
    {WatermarkConfig(f, pd, a, t) :
        f \in 0..MaxFont, pd \in 0..MaxPad, a \in {0, 8}, t \in {"filename", "custom"}}

LayoutEntries ==
    {ImageWatermarkEntry(NoPath, [digits |-> ZeroPad(0, 5), ext |-> "", len |-> n], 1, 1, x, 0, w, h) :
        n \in (0..MaxLine) \cup {8 + MaxLine}, x \in {0, 1}, w \in 0..MaxBox,
        h \in 0..MaxBox}

InitLayout ==
    /\ NoRun
    /\ call \in {[fn |-> "add_watermark_to_image", wm |-> c, entry |-> e] :
                    c \in LayoutConfigs, e \in LayoutEntries}
    /\ ret = NoRet

ApplyLayout ==
    /\ call.fn = "add_watermark_to_image"
    /\ ~ret.done
    /\ \E rect_ok \in BOOLEAN, text_ok \in BOOLEAN :
          ret' = [done |-> TRUE,
                  out |-> add_watermark_to_image(call.wm, call.entry, rect_ok, text_ok)]
    /\ UNCHANGED <<call, run>>

SpecLayout == InitLayout /\ [][ApplyLayout]_vars

\* store_image_to_target: any target name, the two known ones and others,
\* any bytes, any file name and any answers of the blob service and of the
\* file system.
StoreTargets == {"local", "blob", "", "s3"}

StoreBytes ==
    {[NoBytes EXCEPT !.fmt = "png", !.src = x, !.len = n] :
        x \in 1..MaxXref, n \in 0..MaxBytes}

AnyStoreAnswers ==
    {a \in [sdk : BOOLEAN, upload_ok : BOOLEAN, write_ok : BOOLEAN] : a.upload_ok => a.sdk}

InitStore ==
    /\ NoRun
    /\ call \in {[fn |-> "store_image_to_target", target |-> t, image_data |-> b,
                  pnum |-> p, filename |-> Filename(b.src, ext)] :
                    t \in StoreTargets, b \in StoreBytes, p \in 0..(MaxPages - 1),
                    ext \in {"jpeg", "png"}}
    /\ ret = NoRet

ApplyStore ==
    /\ call.fn = "store_image_to_target"
    /\ ~ret.done
    /\ \E answer \in AnyStoreAnswers :
          ret' = [done |-> TRUE, answer |-> answer,
                  out |-> store_image_to_target(call.target, call.image_data, call.pnum,
                                                call.filename, answer)]
    /\ UNCHANGED <<call, run>>

SpecStore == InitStore /\ [][ApplyStore]_vars

\* get_watermark_text: the entry of any stored image, and any format value,
\* the three known ones and others.
TextFormats == {"filename", "filepath", "custom", "", "Filename", "path"}

TextEntries ==
    {ImageWatermarkEntry(PagePath(p, Filename(x, ext)), Filename(x, ext), n, x,
                         0, 0, MaxBox, MaxBox) :
        p \in 0..(MaxPages - 1), x \in 1..MaxXref, ext \in {"jpeg", "png", "pam"},
        n \in {1, 10}}

InitText ==
    /\ NoRun
    /\ call \in {[fn |-> "get_watermark_text", entry |-> e, format_type |-> f] :
                    e \in TextEntries, f \in TextFormats}
    /\ ret = NoRet

ApplyText ==
    /\ call.fn = "get_watermark_text"
    /\ ~ret.done
    /\ ret' = [done |-> TRUE, out |-> get_watermark_text(call.entry, call.format_type)]
    /\ UNCHANGED <<call, run>>

SpecText == InitText /\ [][ApplyText]_vars

\* One pass of either orchestrator's loop body: any policy, any xrefs
\* extracted before, any raw tuple and any answers of the collaborators.
StepConfigs == RunConfigs \cup WatermarkerConfigs

\* The values extracted_xrefs may hold: xrefs with data, each at most once.
XrefLists ==
    {<<>>} \cup {<<x>> : x \in 1..MaxXref}
           \cup {s \in [1..2 -> 1..MaxXref] : s[1] # s[2]}

InitStep ==
    /\ NoRun
    /\ call \in {[fn |-> f, cfg |-> c, xrefs |-> xs, pnum |-> p, img_tuple |-> t] :
                    f \in {"extract_image_from_page", "extract_images_from_page"},
                    c \in StepConfigs, xs \in XrefLists, p \in 0..(MaxPages - 1),
                    t \in RawTuples}
    /\ ret = NoRet

StepRet(o) == [done |-> TRUE, out |-> o, xrefs |-> XrefsAfter(call.xrefs, o)]

\* The pass of the watermarker's loop body with what get_image_rects
\* answered.
TrackRet(o, rect) ==
    [done |-> TRUE, out |-> o, xrefs |-> XrefsAfter(call.xrefs, o), rect |-> rect]

ApplyExtractStep ==
    /\ call.fn = "extract_image_from_page"
    /\ ~ret.done
    /\ \E d \in RunDocViews(call.img_tuple), write_ok \in BOOLEAN :
          ret' = StepRet(extract_image_from_page_step(call.cfg, call.xrefs, call.pnum,
                                                      call.img_tuple, d, write_ok))
    /\ UNCHANGED <<call, run>>

ApplyTrackStep ==
    /\ call.fn = "extract_images_from_page"
    /\ ~ret.done
    /\ \E d \in RunDocViews(call.img_tuple),
          answer \in StoreAnswers(output_target(call.cfg)), rect \in RectAnswers :
          ret' = TrackRet(extract_images_from_page_step(call.cfg, call.xrefs, call.pnum,
                                                        call.img_tuple, d, answer, rect),
                          rect)
    /\ UNCHANGED <<call, run>>

NextStep == ApplyExtractStep \/ ApplyTrackStep

SpecStep == InitStep /\ [][NextStep]_vars

(***************************************************************************)
(* Several calls of extract_all_images on one extractor (SpecRerun).       *)
(***************************************************************************)

\* extract_all_images is called again on the same instance once a call has
\* returned or raised: the locals of the call start afresh (lines 135-141),
\* self.extracted_xrefs and the files on disk are what the earlier calls
\* left.  The histories are those of the call.
ExtractAgain ==
    /\ pc \in {"returned", "raised"}
    /\ method = "extract"
    /\ pc' = "ready"
    /\ doc' = "none"
    /\ closes' = 0
    /\ page_count' = 0
    /\ page_num' = 0
    /\ image_list' = <<>>
    /\ img_index' = 1
    /\ extracted_files' = <<>>
    /\ all_extracted_files' = <<>>
    /\ all_image_xrefs' = {}
    /\ result' = NoResult
    /\ last' = NoOutcome
    /\ tries' = [x \in Xrefs |-> NoTry]
    /\ UNCHANGED <<method, refs_left, config, watermark_config, extracted_xrefs,
                   disk, marks, pure>>

NextRerun == Next \/ ExtractAgain

SpecRerun == Init /\ [][NextRerun]_vars

(***************************************************************************)
(* The document source (SpecSource): the construction of a watermarker and *)
(* the first step of either run, on an extractor that may have run before. *)
(***************************************************************************)

\* The constructor without the test of the source.
watermarker_init_unchecked(exists, file_contents) == "ok"

\* PDFImageWatermarker.__init__, lines 43-44: neither a file nor contents.
watermarker_init(exists, file_contents) ==
    IF ~exists /\ ~file_contents THEN "ValueError" ELSE "ok"

\* The arguments of the constructor, or the extractor about to be called:
\* its extracted_xrefs may hold the xrefs of earlier runs.
InitSource ==
    /\ \/ /\ pc = "new"
          /\ method = "annotate"
          /\ config \in WatermarkerConfigs
          /\ extracted_xrefs = <<>>
          /\ call \in [fn : {"PDFImageWatermarker"}, exists : BOOLEAN,
                       file_contents : BOOLEAN]
       \/ /\ pc = "ready"
          /\ method = "extract"
          /\ config \in RunConfigs
          /\ extracted_xrefs \in XrefLists
          /\ call = NoCall
    /\ watermark_config = WatermarkConfig(DefaultFontSize, DefaultPadding, 8, "filename")
    /\ refs_left = MaxRefs
    /\ doc = "none"
    /\ closes = 0
    /\ page_count = 0
    /\ page_num = 0
    /\ image_list = <<>>
    /\ img_index = 1
    /\ extracted_files = <<>>
    /\ all_extracted_files = <<>>
    /\ all_image_xrefs = {}
    /\ entries = <<>>
    /\ watermark_entries = <<>>
    /\ page_entries_by_page = <<>>
    /\ wm_page = 1
    /\ wm_index = 1
    /\ watermarked_count = 0
    /\ total_watermarked = 0
    /\ placed = <<>>
    /\ disk = {}
    /\ result = NoResult
    /\ last = NoOutcome
    /\ tries = [x \in Xrefs |-> NoTry]
    /\ ret = NoRet

\* PDFImageWatermarker.__init__, lines 38-58: without a source it raises,
\* else the instance is ready.
WatermarkerInit ==
    /\ pc = "new"
    /\ LET error == watermarker_init(call.exists, call.file_contents)
       IN  IF error # "ok"
           THEN /\ pc' = "raised"
                /\ result' = Raise(error)
           ELSE /\ pc' = "ready"
                /\ result' = result
    /\ UNCHANGED <<method, refs_left, config, watermark_config, doc, closes,
                   page_count, page_num, image_list, img_index, extracted_xrefs,
                   disk, last, tries, extraction, marks, pure>>

NextSource == WatermarkerInit \/ ExtractAllImages \/ ProcessPdfWithWatermarks

SpecSource == InitSource /\ [][NextSource]_vars

(***************************************************************************)
(* The filter (SpecFilter)                                                 *)
(***************************************************************************)

\* A raw tuple that from_tuple refuses is in the list of the current page.
MalformedListed == \E i \in 1..Len(image_list) : ~from_tuple(image_list[i]).ok

\* The paths extract_all_images has collected so far: the run's list, and
\* the list of the page whose references are being processed.
FilesSoFar ==
    all_extracted_files \o (IF pc = "ref" THEN extracted_files ELSE <<>>)

\* The positions of the paths of files that hold the image of xref x.
FilesOf(files, x) == {i \in 1..Len(files) : DigitsValue(files[i].name.digits) = x}

NoDuplicates(s) == \A i, j \in 1..Len(s) : s[i] = s[j] => i = j

\* C1: in a run of extract_all_images on a fresh extractor no xref is stored
\* more than once: extracted_xrefs never holds a duplicate, and the files
\* collected (and the files of the result) hold at most one path per xref,
\* however often and wherever the xref is listed.
C1_NoXrefStoredTwice ==
    /\ NoDuplicates(extracted_xrefs)
    /\ \A x \in Xrefs :
          /\ Cardinality(FilesOf(FilesSoFar, x)) <= 1
          /\ Cardinality(FilesOf(result.extracted_files, x)) <= 1
          /\ tries[x].stores <= 1

\* A run returned one file for an xref that one page listed twice.
C1_Witness ==
    /\ pc = "returned"
    /\ last.kind = "duplicate"
    /\ tries[last.meta.xref].page = last.page
    /\ Len(image_list) = 2
    /\ Cardinality(FilesOf(result.extracted_files, last.meta.xref)) = 1

\* C2: when the first occurrence of an xref is recovered, accepted and
\* stored, the run holds exactly one file for it, in the directory of the
\* page of that occurrence (page index + 1), and recover_pixmap is called
\* for the xref only that once: a later occurrence is skipped before it.
C2_OneFileUnderFirstPage ==
    \A x \in Xrefs :
        tries[x].kind = "stored" =>
            /\ tries[x].recovers = 1
            /\ tries[x].stores = 1
            /\ Cardinality(FilesOf(FilesSoFar, x)) = 1
            /\ \A i \in FilesOf(FilesSoFar, x) :
                   /\ FilesSoFar[i].page = tries[x].page + 1
                   /\ FilesSoFar[i] \in disk
            /\ Cardinality({f \in disk : DigitsValue(f.name.digits) = x}) = 1
            /\ (last.kind = "duplicate" /\ last.meta.xref = x) => ~CalledRecover(last)

\* The first page stored an xref, the second page listed it again, and the
\* run returned.
C2_Witness ==
    /\ pc = "returned"
    /\ last.kind = "duplicate"
    /\ last.page = 1
    /\ tries[last.meta.xref].kind = "stored"
    /\ tries[last.meta.xref].page = 0
    /\ result.extracted_files = <<PagePath(0, Filename(last.meta.xref, "jpeg"))>>

\* C3: for a reference with xref 0, under every policy, a pass of either
\* orchestrator's loop body skips it: recover_pixmap is not called, nothing
\* is stored, no entry is made, and 0 is not added to extracted_xrefs.
C3_XrefZeroSkipped ==
    (ret.done /\ call.img_tuple.xref = 0) =>
        /\ ~CalledRecover(ret.out)
        /\ ret.out.kind \in {"no_data", "parse_error"}
        /\ ~ret.out.stored
        /\ ret.out.path = NoPath
        /\ ret.out.entry = NoEntry
        /\ ret.xrefs = call.xrefs
        /\ 0 \notin SeqToSet(ret.xrefs)

\* The watermarker's loop body skipped a well-formed reference with xref 0
\* under no filter at all.
C3_Witness ==
    /\ ret.done
    /\ call.fn = "extract_images_from_page"
    /\ from_tuple(call.img_tuple).ok
    /\ call.img_tuple.xref = 0
    /\ call.cfg = ExtractionConfig(0, 0, 0)
    /\ ret.out.kind = "no_data"

PixelCount(c) ==
    c.img_metadata.width * c.img_metadata.height * c.image_data.colorspace

\* C4: should_extract_image returns True exactly when every enabled gate
\* passes, each comparison inclusive at its threshold, the density gate
\* counting as passed when the pixel count is not positive.
C4_AcceptIffAllGatesPass ==
    ret.done =>
        (ret.accept <=>
            /\ (call.cfg.dim_limit = 0
                \/ Min(call.img_metadata.width, call.img_metadata.height)
                       >= call.cfg.dim_limit)
            /\ (call.cfg.abs_size = 0
                \/ call.image_data.image.len >= call.cfg.abs_size)
            /\ (call.cfg.rel_size = 0
                \/ PixelCount(call) <= 0
                \/ call.image_data.image.len * RelDen
                       >= call.cfg.rel_size * PixelCount(call)))

\* An image accepted with its smaller side and its length on the thresholds
\* and the density gate enabled.
C4_Witness ==
    /\ ret.done
    /\ ret.accept
    /\ call.cfg.dim_limit > 0
    /\ min_dimension(call.img_metadata) = call.cfg.dim_limit
    /\ call.cfg.abs_size > 0
    /\ call.image_data.image.len = call.cfg.abs_size
    /\ call.cfg.rel_size > 0

\* C5: raising one threshold (a disabled one included) never turns a reject
\* into an accept.
C5_RaisingNeverAccepts ==
    (ret.done /\ ~ret.accept) => ~ret.accept_raised

\* An image rejected by a gate that stays, while the disabled density gate
\* is raised to a positive value.
C5_Witness ==
    /\ ret.done
    /\ ~ret.accept
    /\ ~ret.accept_raised
    /\ call.cfg.rel_size = 0
    /\ ret.raised.rel_size > 0

(***************************************************************************)
(* Recovery (SpecRecover)                                                  *)
(***************************************************************************)

\* C6: recover_pixmap picks one tier in fixed priority: the soft-mask tier
\* for smask > 0 whether or not /ColorSpace is declared; else, with
\* /ColorSpace, an RGB png of channel count 3; else the collaborator's
\* extension, channel count and bytes unmodified.
C6_TierPriority ==
    ret.done =>
        LET m == call.img_metadata
            base == call.d.objects[m.xref]
            o == ret.out
        IN  /\ m.smask > 0 =>
                   /\ o.tier = "smask"
                   /\ o.ok => (o.ext \in {"png", "pam"} /\ ~o.image.raw /\ ~o.image.rgb)
            /\ (m.smask = 0 /\ call.d.has_colorspace) =>
                   /\ o.tier = "colorspace"
                   /\ o.ok => (o.ext = "png" /\ o.colorspace = 3
                               /\ o.image.rgb /\ o.image.fmt = "png")
            /\ (m.smask = 0 /\ ~call.d.has_colorspace) =>
                   /\ o.tier = "normal"
                   /\ o.ok => (o.ext = base.ext /\ o.colorspace = base.colorspace
                               /\ o.image = RawBytes(base))

\* A masked reference whose object also declares /ColorSpace is recovered.
C6_Witness ==
    /\ ret.done
    /\ call.img_metadata.smask > 0
    /\ call.d.has_colorspace
    /\ ret.out.ok

\* C7: with smask > 0 the extension is pam exactly when the channel count
\* recorded in the returned image is greater than 3, and png otherwise.
C7_PamIffMoreThanThreeChannels ==
    (ret.done /\ call.img_metadata.smask > 0 /\ ret.out.ok) =>
        /\ ret.out.ext = "pam" <=> ret.out.colorspace > 3
        /\ ret.out.ext # "pam" => ret.out.ext = "png"

\* A CMYK base with an alpha channel whose mask could not be composited:
\* the fallback is written as pam.
C7_Witness ==
    /\ ret.done
    /\ call.img_metadata.smask > 0
    /\ ret.out.ok
    /\ ret.out.fallback
    /\ ret.out.ext = "pam"
    /\ call.d.objects[1].alpha = 1

(***************************************************************************)
(* The layout (SpecLayout)                                                 *)
(***************************************************************************)

\* C8: when compositing the mask onto the base raises, recover_pixmap does
\* not fail: its result is the base image fetched again, without the mask,
\* and the orchestrator treats the reference as recovered (it goes to the
\* filter and the write) and moves on to the next reference of the page.
C8_MaskFailureFallsBack ==
    LET d == last.view
        m == last.meta
        r == last.recovered
    IN  (/\ CalledRecover(last)
         /\ m.smask > 0
         /\ d.objects[m.xref].avail
         /\ d.objects[m.smask].avail
         /\ ~d.compose_ok) =>
            /\ r.ok
            /\ r.fallback
            /\ r.image = Tobytes(PixmapOf(d.objects[m.xref]), r.ext)
            /\ r.image.mask = 0
            /\ r.colorspace = d.objects[m.xref].colorspace
            /\ last.kind \in {"filtered", "store_error", "stored"}
            /\ last.stored => last.path \in disk
            /\ (pc = "ref" /\ last.page = page_num) => img_index > 1

\* The mask did not fit the first reference of a page: the base image was
\* stored for it, and the page's second reference is about to be processed.
C8_Witness ==
    /\ pc = "ref"
    /\ img_index = 2
    /\ Len(image_list) = 2
    /\ last.meta.smask > 0
    /\ ~last.view.compose_ok
    /\ last.recovered.fallback
    /\ last.kind = "stored"
    /\ last.path \in disk
    /\ ENABLED ExtractRef

\* The lengths of the lines of the call's label.
CallLines ==
    LET t == get_watermark_text(call.entry, call.wm.text_format)
    IN  [i \in 1..Len(t) |-> t[i].len]

\* The two rectangles have no area in common.
NoCommonArea(a, b) ==
    \/ Max(a.x0, b.x0) >= Min(a.x1, b.x1)
    \/ Max(a.y0, b.y0) >= Min(a.y1, b.y1)

Inside(r, b) == r.x0 >= b.x0 /\ r.y0 >= b.y0 /\ r.x1 <= b.x1 /\ r.y1 <= b.y1

\* C9: every rectangle passed to a draw call lies inside the entry's
\* bounding box, and when the centred text box and the bounding box have an
\* empty intersection the method returns False without any draw call.
C9_DrawsInsideBoundingBox ==
    ret.done =>
        /\ \A i \in 1..Len(ret.out.draws) :
               Inside(ret.out.draws[i].rect, image_rect(call.entry))
        /\ NoCommonArea(text_box(call.wm, call.entry, CallLines), image_rect(call.entry))
               => (~ret.out.ok /\ ret.out.draws = <<>>)

\* A label wider than the image was drawn, background and text.
C9_Witness ==
    /\ ret.done
    /\ ret.out.ok
    /\ Len(ret.out.draws) = 2
    /\ text_box(call.wm, call.entry, CallLines).x0 < image_rect(call.entry).x0

\* C10: a malformed raw reference tuple skips only that reference: a run
\* whose page lists one does not abort.
C10_MalformedTupleSkipsOnlyItself == ~(pc = "raised" /\ MalformedListed)

\* The outcomes of a reference whose recovery or write raised.
FailedKinds == {"recover_error", "store_error"}

\* C11: an exception raised while recovering, filtering or writing one
\* reference is caught for that reference: it adds no path to the results
\* and is not recorded, the loop moves on to the next reference, and the run
\* never aborts because of it (a run aborts only when the file is missing or
\* a page cannot be listed).
C11_ReferenceFailureIsCaught ==
    /\ last.kind \in FailedKinds =>
           /\ ~last.stored
           /\ last.path \notin SeqToSet(FilesSoFar)
           /\ last.path \notin disk
           /\ last.meta.xref \notin SeqToSet(extracted_xrefs)
           /\ (pc = "ref" /\ last.page = page_num) => img_index > 1
    /\ \A i \in 1..Len(FilesSoFar) : FilesSoFar[i] \in disk
    /\ pc = "raised" => (doc = "none" \/ image_list = <<>> \/ MalformedListed)

\* Recovery failed for a reference of the first page; the run went on,
\* stored a reference of the second page and returned it.
C11_Witness ==
    /\ pc = "returned"
    /\ tries[1].kind = "recover_error"
    /\ tries[1].page = 0
    /\ last.kind = "stored"
    /\ last.page = 1
    /\ result.extracted_files = <<last.path>>

\* C12: extract_all_images closes the document exactly once on every exit
\* taken after it was opened, the return and every exception alike, and
\* never while pages are being processed or when nothing was opened.
C12_ClosedExactlyOnce ==
    /\ closes <= 1
    /\ doc = "none" => closes = 0
    /\ pc \in {"page", "ref"} => (doc = "open" /\ closes = 0)
    /\ (pc \in {"returned", "raised"} /\ doc # "none") => (doc = "closed" /\ closes = 1)

\* A run stored a file on its first page and was aborted by its second page.
C12_Witness ==
    /\ pc = "raised"
    /\ page_num = 1
    /\ Len(all_extracted_files) = 1
    /\ doc = "closed"
    /\ closes = 1

\* C13: in an annotation run the document opened at the start is closed on
\* every exit of the run, the return of the result as well as an exception.
C13_AnnotationRunReleasesDocument ==
    (pc \in {"returned", "raised"} /\ doc # "none") => doc = "closed"

\* Xrefs whose numbers have fewer than, exactly and more than five digits.
PadXrefs == Xrefs \cup {10, 99999, 100000}

\* C14: a file stored locally for xref x while processing page index p has
\* the path <output_dir>/images/page_<p+1>/img<x, zero-padded to 5
\* digits>.<ext> with the extension of the recovered image; the name is
\* made of (x, ext) and the directory of p alone, and distinct xrefs (or
\* pages, or extensions) never give the same path.
C14_LocalPathLayout ==
    (ret.done /\ ret.out.stored /\ ~ret.out.path.remote) =>
        LET path == ret.out.path
            x == call.img_tuple.xref
        IN  /\ path.page = call.pnum + 1
            /\ Len(path.name.digits) = 5
            /\ DigitsValue(path.name.digits) = x
            /\ \A i \in 1..Len(path.name.digits) : path.name.digits[i] \in 0..9
            /\ path.name.ext = ret.out.recovered.ext
            /\ path.name = Filename(x, ret.out.recovered.ext)
            /\ path.len = OutDirLen + 13 + Digits(call.pnum + 1) + 1 + path.name.len
            /\ \A y \in PadXrefs, q \in 0..(MaxPages - 1), e \in {"png", "pam", "jpeg"} :
                   PagePath(q, Filename(y, e)) = path
                       => (y = x /\ q = call.pnum /\ e = path.name.ext)
            /\ \A y \in PadXrefs : Len(ZeroPad(y, 5)) = Max(5, Len(DecimalDigits(y)))

\* The watermarker stored the image of xref 2 for the second page in a
\* local file when the upload had failed.
C14_Witness ==
    /\ ret.done
    /\ call.fn = "extract_images_from_page"
    /\ call.cfg.blob
    /\ call.pnum = 1
    /\ call.img_tuple.xref = 2
    /\ ret.out.stored
    /\ ~ret.out.path.remote
    /\ ret.out.path.name.digits = <<0, 0, 0, 0, 2>>

\* C15: get_watermark_text gives the file name for 'filename', the full
\* stored path for 'filepath', the file name and a second line '(Page
\* <page_num>)' for 'custom', and the file name for every other value.
C15_WatermarkTextFormats ==
    ret.done =>
        LET e == call.entry
            f == call.format_type
            name == [of |-> "filename", len |-> e.filename.len, num |-> 0]
        IN  /\ f = "filename" => ret.out = <<name>>
            /\ f = "filepath" =>
                   ret.out = <<[of |-> "filepath", len |-> e.filepath.len, num |-> 0]>>
            /\ f = "custom" =>
                   /\ Len(ret.out) = 2
                   /\ ret.out[1] = name
                   /\ ret.out[2].of = "page"
                   /\ ret.out[2].num = e.page_num
                   /\ ret.out[2].len = 7 + Len(DecimalDigits(e.page_num))
            /\ f \notin {"filename", "filepath", "custom"} => ret.out = <<name>>

\* An unknown format value gave the file name of an entry of page 10.
C15_Witness ==
    /\ ret.done
    /\ call.format_type = "path"
    /\ call.entry.page_num = 10
    /\ ret.out = <<[of |-> "filename", len |-> call.entry.filename.len, num |-> 0]>>
    /\ call.entry.filepath.len > call.entry.filename.len

\* C16: for an accepted and stored image of an annotation run, no placement
\* rectangle means no entry, the stored file kept and a pass that returns
\* (the loop goes on); one or more rectangles mean an entry whose bounding
\* box is the first one's x0, y0, width and height.
C16_FirstRectangleOrNoEntry ==
    (ret.done /\ call.fn = "extract_images_from_page" /\ ret.out.stored /\ ret.rect.ok) =>
        IF ret.rect.rects = <<>>
        THEN /\ ret.out.kind = "no_rect"
             /\ ret.out.entry = NoEntry
             /\ ret.out.path # NoPath
        ELSE /\ ret.out.kind = "tracked"
             /\ ret.out.entry.xref = ret.out.meta.xref
             /\ ret.out.entry.bbox_x = ret.rect.rects[1].x0
             /\ ret.out.entry.bbox_y = ret.rect.rects[1].y0
             /\ ret.out.entry.bbox_width = ret.rect.rects[1].width
             /\ ret.out.entry.bbox_height = ret.rect.rects[1].height

\* Two different rectangles were returned for a stored image, and the entry
\* has the first one's.
C16_Witness ==
    /\ ret.done
    /\ call.fn = "extract_images_from_page"
    /\ ret.out.stored
    /\ ret.rect.ok
    /\ Len(ret.rect.rects) = 2
    /\ ret.rect.rects[1] # ret.rect.rects[2]
    /\ ret.out.kind = "tracked"
    /\ ret.out.entry.bbox_x = ret.rect.rects[1].x0

\* The second pass of process_pdf_with_watermarks is going on: a page is
\* being watermarked (every draw call is issued there) or one has been.
Drawing == method = "annotate" /\ pc \in {"mark", "marks"}

\* C17: the two passes of process_pdf_with_watermarks never interleave: while
\* draw calls are issued every page 0..page_count-1 has been extracted, and
\* from the first of them on nothing is recovered or stored.
C17_PassesNeverInterleave ==
    [][Drawing =>
          /\ page_num = page_count
          /\ img_index > Len(image_list)
          /\ tries' = tries
          /\ disk' = disk
          /\ last' = last
          /\ extracted_xrefs' = extracted_xrefs
          /\ watermark_entries' = watermark_entries
          /\ page_entries_by_page' = page_entries_by_page
          /\ page_num' = page_num
          /\ pc' \in {"mark", "marks", "returned"}]_vars

\* The second page of a document whose two pages both have an entry is
\* being watermarked, after the first page's watermark was drawn.
C17_Witness ==
    /\ method = "annotate"
    /\ pc = "mark"
    /\ page_count = 2
    /\ Len(page_entries_by_page) = 2
    /\ wm_page = 2
    /\ total_watermarked = 1

\* C18: store_image_to_target with a target that is neither 'local' nor
\* 'blob' raises ValueError, writes no local file and tries no upload,
\* whatever the blob service and the file system would have answered.
C18_UnknownTargetRaises ==
    (ret.done /\ call.target \notin {"local", "blob"}) =>
        /\ ~ret.out.ok
        /\ ret.out.error = "ValueError"
        /\ ~ret.out.wrote
        /\ ret.out.written = NoBytes
        /\ ~ret.out.uploaded
        /\ ret.out.uploads = 0

\* The target "s3" was refused although the SDK, the upload and the local
\* write would all have succeeded.
C18_Witness ==
    /\ ret.done
    /\ call.target = "s3"
    /\ ret.answer.sdk /\ ret.answer.upload_ok /\ ret.answer.write_ok
    /\ ret.out.error = "ValueError"

\* C19: store_image_to_target with target 'blob': when the upload fails or
\* the SDK is missing, the error is not raised but the given bytes are
\* written to <output_dir>/<filename> and that local path is returned (if
\* that write fails, its own error is raised); when the upload succeeds the
\* URL is returned and no local file is written.
C19_BlobFallsBackToLocal ==
    (ret.done /\ call.target = "blob") =>
        /\ ret.out.uploads = 1
        /\ (ret.answer.sdk /\ ret.answer.upload_ok) =>
               /\ ret.out.ok
               /\ ret.out.uploaded
               /\ ret.out.path = BlobUrl(call.pnum, call.filename)
               /\ ret.out.path.remote
               /\ ~ret.out.wrote
               /\ ret.out.written = NoBytes
        /\ (~ret.answer.sdk \/ ~ret.answer.upload_ok) =>
               /\ ~ret.out.uploaded
               /\ ret.out.error \notin {"ImportError", "Exception"}
               /\ ret.out.ok = ret.answer.write_ok
               /\ ret.out.wrote = ret.answer.write_ok
               /\ ret.out.ok =>
                      /\ ret.out.written = call.image_data
                      /\ ~ret.out.path.remote
                      /\ ret.out.path.name = call.filename
                      /\ ret.out.path.page = call.pnum + 1
                      /\ ret.out.path.len =
                             OutDirLen + 13 + Len(DecimalDigits(call.pnum + 1)) + 1
                             + call.filename.len

\* Without the SDK the bytes went to the local file.
C19_Witness ==
    /\ ret.done
    /\ call.target = "blob"
    /\ ~ret.answer.sdk
    /\ ret.out.ok
    /\ ret.out.wrote
    /\ ret.out.written = call.image_data
    /\ call.image_data.len > 0
    /\ ~ret.out.path.remote

\* C20: in an annotation run an xref whose bytes have been stored is never
\* recovered or stored again, on however many pages it is listed, also when
\* the stored image had no placement rectangle and got no entry.
C20_StoredXrefNeverProcessedAgain ==
    method = "annotate" =>
        \A x \in Xrefs :
            /\ tries[x].stores <= 1
            /\ tries[x].kind \in {"tracked", "no_rect", "rect_error"} =>
                   tries[x].recovers = 1

\* What a rejected source leaves alone: nothing is opened or closed, and
\* the extractor's state is as before.
SourceRejected(error) ==
    /\ pc' = "raised"
    /\ result'.kind = error
    /\ doc = "none"
    /\ doc' = "none"
    /\ closes' = closes
    /\ closes' = 0
    /\ extracted_xrefs' = extracted_xrefs
    /\ disk' = disk
    /\ tries' = tries

\* C21: a missing document source is rejected before anything is opened:
\* the constructor of PDFImageWatermarker raises ValueError for a path that
\* does not exist and no file contents (and only then), and
\* extract_all_images raises FileNotFoundError for a path that does not
\* exist; extracted_xrefs is unchanged and neither open nor close is called.
C21_MissingSourceRejected ==
    [][/\ pc = "new" =>
              IF ~call.exists /\ ~call.file_contents
              THEN SourceRejected("ValueError")
              ELSE pc' = "ready" /\ doc' = "none"
       /\ (pc = "ready" /\ method = "extract" /\ pc' = "raised") =>
              SourceRejected("FileNotFoundError")]_vars

\* extract_all_images raised FileNotFoundError on an extractor that had
\* extracted two xrefs before.
C21_Witness ==
    /\ method = "extract"
    /\ pc = "raised"
    /\ result.kind = "FileNotFoundError"
    /\ Len(extracted_xrefs) = 2
    /\ doc = "none"
    /\ closes = 0

\* The length of the longest line and the number of lines of the call's
\* label: the file name, and under 'custom' also the line "(Page <n>)".
LongestLine ==
    IF call.wm.text_format = "custom"
    THEN Max(call.entry.filename.len, 7 + Len(DecimalDigits(call.entry.page_num)))
    ELSE call.entry.filename.len

LineCount == IF call.wm.text_format = "custom" THEN 2 ELSE 1

\* C22: before clamping, the text box of add_watermark_to_image is (longest
\* line) x 0.6 x font_size + 2 x padding wide and (number of lines) x 1.2 x
\* font_size + 2 x padding high, and its centre is the centre of the bounding
\* box (bbox_x + bbox_width / 2, bbox_y + bbox_height / 2); what is drawn is
\* this box clipped to the bounding box.  Lengths are in twentieths of a
\* point: 0.6 x font_size is 12 x font_size, a padding is 20 x padding.
C22_TextBoxDimensions ==
    ret.done =>
        LET box == text_box(call.wm, call.entry, CallLines)
            width == LongestLine * 12 * call.wm.font_size + 2 * 20 * call.wm.padding
            height == LineCount * 24 * call.wm.font_size + 2 * 20 * call.wm.padding
        IN  /\ box.x1 - box.x0 = width
            /\ box.y1 - box.y0 = height
            /\ box.x0 + box.x1 = 2 * (20 * call.entry.bbox_x + 10 * call.entry.bbox_width)
            /\ box.y0 + box.y1 = 2 * (20 * call.entry.bbox_y + 10 * call.entry.bbox_height)
            /\ \A i \in 1..Len(ret.out.draws) :
                   ret.out.draws[i].rect = RectAnd(box, image_rect(call.entry))

\* A two-line label whose first line is the longer one was drawn with
\* padding: the box is as wide as that line and the padding, and wider than
\* the image.
C22_Witness ==
    /\ ret.done
    /\ ret.out.ok
    /\ call.wm.text_format = "custom"
    /\ call.wm.padding > 0
    /\ call.wm.font_size = 1
    /\ call.entry.filename.len > 8
    /\ ret.out.draws # <<>>
    /\ LET box == text_box(call.wm, call.entry, CallLines)
       IN  /\ box.x1 - box.x0 = call.entry.filename.len * 12 + 40 * call.wm.padding
           /\ box.y1 - box.y0 = 2 * 24 + 40 * call.wm.padding
           /\ box.x1 - box.x0 > 20 * call.entry.bbox_width

\* C23: a successful add_watermark_to_image draws on one rectangle, the
\* clamped text box, in a fixed order: with a background alpha above 0 the
\* filled rectangle once, in the background's RGB components only, and then
\* the text once, centred, in the configured font size and colour; with
\* alpha 0 the text only.
C23_BackgroundThenText ==
    (ret.done /\ ret.out.ok) =>
        LET draws == ret.out.draws
            n == Len(draws)
            box == RectAnd(text_box(call.wm, call.entry, CallLines),
                           image_rect(call.entry))
            bg == call.wm.background_color
        IN  /\ n = IF bg[4] > 0 THEN 2 ELSE 1
            /\ \A i \in 1..n : draws[i].rect = box
            /\ draws[n] = [op |-> "insert_textbox", rect |-> box,
                           color |-> call.wm.font_color,
                           fontsize |-> call.wm.font_size, align |-> "center"]
            /\ bg[4] > 0 =>
                   draws[1] = [op |-> "draw_rect", rect |-> box,
                               color |-> <<bg[1], bg[2], bg[3]>>, fontsize |-> 0,
                               align |-> ""]

\* Background and text were drawn, in this order, on a box that was clipped.
C23_Witness ==
    /\ ret.done
    /\ ret.out.ok
    /\ call.wm.background_color[4] > 0
    /\ Len(ret.out.draws) = 2
    /\ ret.out.draws[1].op = "draw_rect"
    /\ Len(ret.out.draws[1].color) = 3
    /\ ret.out.draws[2].op = "insert_textbox"
    /\ ret.out.draws[1].rect # text_box(call.wm, call.entry, CallLines)

\* The xrefs of a sequence of entries or of placements, in order.
XrefsOf(s) == [i \in 1..Len(s) |-> s[i].xref]

\* C24: in the second pass every entry made in the run is passed to
\* add_watermark_to_image exactly once (the calls made so far are the
\* entries of the run from the first on, none twice, and at the return all of
\* them, whatever the placements before returned), and images_watermarked is
\* the number of placements that returned True, at most images_extracted.
C24_EachEntryPlacedOnce ==
    method = "annotate" =>
        /\ Len(placed) <= Len(watermark_entries)
        /\ XrefsOf(placed) = SubSeq(XrefsOf(watermark_entries), 1, Len(placed))
        /\ NoDuplicates(XrefsOf(placed))
        /\ pc = "returned" =>
               /\ XrefsOf(placed) = XrefsOf(watermark_entries)
               /\ result.images_watermarked =
                      Cardinality({i \in 1..Len(placed) : placed[i].ok})
               /\ result.images_extracted = Len(watermark_entries)
               /\ result.images_watermarked <= result.images_extracted

\* A run returned after two placements on two pages: the first failed, the
\* second was made all the same, and one image counts as watermarked.
C24_Witness ==
    /\ method = "annotate"
    /\ pc = "returned"
    /\ Len(placed) = 2
    /\ ~placed[1].ok
    /\ placed[2].ok
    /\ placed[1].page # placed[2].page
    /\ result.images_watermarked = 1
    /\ result.images_extracted = 2

\* The xref in the name of a stored path.
XrefOfPath(path) == DigitsValue(path.name.digits)

\* The files are those of references at increasing positions below bound of
\* the listing lst.
InListingOrder(files, lst, bound) ==
    \A i, j \in 1..Len(files) :
        i < j => \E p, q \in 1..(bound - 1) :
                     /\ p < q
                     /\ lst[p].xref = XrefOfPath(files[i])
                     /\ lst[q].xref = XrefOfPath(files[j])

\* The stored paths are in the order of the pages, those of the current
\* page in the order of its listing, and they are the files of
\* extracted_xrefs in the order of recording.
FilesInProcessingOrder ==
    /\ \A i, j \in 1..Len(FilesSoFar) :
           i < j => FilesSoFar[i].page <= FilesSoFar[j].page
    /\ \A i \in 1..Len(all_extracted_files) : all_extracted_files[i].page <= page_num
    /\ pc = "ref" =>
           /\ \A i \in 1..Len(extracted_files) : extracted_files[i].page = page_num + 1
           /\ InListingOrder(extracted_files, image_list, img_index)
    /\ [i \in 1..Len(FilesSoFar) |-> XrefOfPath(FilesSoFar[i])] = extracted_xrefs
    /\ pc = "returned" => result.extracted_files = all_extracted_files

\* C25: extract_all_images processes the pages in increasing order from 0,
\* one at a time, and the references of a page in the order of the listing,
\* one at a time and each to its end before the next; extracted_files holds
\* the stored paths in this order (page, then position in the listing).
C25_SequentialInListingOrder ==
    /\ []FilesInProcessingOrder
    /\ [][/\ page_num' \in {page_num, page_num + 1}
          /\ page_num' = page_num + 1 => (pc = "ref" /\ img_index > Len(image_list))
          /\ page_num <= page_count
          /\ img_index' # img_index =>
                 \/ img_index' = img_index + 1 /\ pc = "ref" /\ page_num' = page_num
                 \/ img_index' = 1 /\ pc = "page"]_vars

\* A run returned two files: the first from page 1, the second from page 2.
C25_Witness ==
    /\ method = "extract"
    /\ pc = "returned"
    /\ Len(result.extracted_files) = 2
    /\ result.extracted_files[1].page = 1
    /\ result.extracted_files[2].page = 2

\* The entries made so far in the annotation run: the run's list, and the
\* list of the page whose references are being processed.
EntriesSoFar == watermark_entries \o (IF pc = "ref" THEN entries ELSE <<>>)

\* C26: every watermark entry of an annotation run belongs to a reference
\* that passed the dedup test and the filter: when it is made its xref is not
\* in extracted_xrefs and should_extract_image is True for it, afterwards
\* the xref is in extracted_xrefs, and no two entries of the run have the
\* same xref.
C26_EntryPassedDedupAndFilter ==
    /\ [](method = "annotate" =>
              /\ NoDuplicates(XrefsOf(EntriesSoFar))
              /\ \A i \in 1..Len(EntriesSoFar) :
                     EntriesSoFar[i].xref \in SeqToSet(extracted_xrefs))
    /\ [][(method = "annotate" /\ pc = "ref" /\ entries' # entries) =>
              /\ entries' = Append(entries, last'.entry)
              /\ last'.kind = "tracked"
              /\ last'.entry.xref = last'.meta.xref
              /\ last'.meta.xref \notin SeqToSet(extracted_xrefs)
              /\ should_extract_image(config, last'.meta, last'.recovered)
              /\ extracted_xrefs' = Append(extracted_xrefs, last'.meta.xref)]_vars

\* A second entry has just been made, for another xref than the first, and
\* both xrefs are recorded.
C26_Witness ==
    /\ method = "annotate"
    /\ pc = "ref"
    /\ Len(EntriesSoFar) = 2
    /\ last.kind = "tracked"
    /\ last.entry = EntriesSoFar[2]
    /\ EntriesSoFar[1].xref # EntriesSoFar[2].xref
    /\ extracted_xrefs = <<EntriesSoFar[1].xref, EntriesSoFar[2].xref>>

\* C27: the images_extracted of an annotation run's result is the number of
\* images stored in the run, those stored without a placement rectangle
\* included.
C27_ExtractedCountsEveryStoredImage ==
    (method = "annotate" /\ pc = "returned") =>
        result.images_extracted = Cardinality(disk)

\* C28: in every result of extract_all_images, whatever calls were made on
\* the extractor before, images_extracted is the length of the result's
\* extracted_files and is at most its unique_images_found.
C28_ExtractedMatchesFiles ==
    (method = "extract" /\ pc = "returned") =>
        /\ result.images_extracted = Len(result.extracted_files)
        /\ result.images_extracted <= result.unique_images_found

\* The step is one pass of extract_image_from_page's loop body.
ReferenceProcessed == method = "extract" /\ pc = "ref" /\ img_index' = img_index + 1

\* C29: the filter changes nothing, and a reference that is not stored
\* (unparseable, xref 0, duplicate, rejected by the filter, failed in
\* recovery or in the write) leaves extracted_xrefs and the extracted files
\* as they were; an accepted and stored reference adds its own xref and its
\* path, once.  A reference is skipped as a duplicate only if its xref was
\* recorded, so the xref of a rejected or failed one is tried again when it
\* is listed later.
C29_OnlyStoredReferenceRecorded ==
    [][ReferenceProcessed =>
          /\ config' = config
          /\ last'.kind \in {"parse_error", "no_data", "duplicate", "filtered",
                             "recover_error", "store_error", "stored"}
          /\ IF last'.kind = "stored"
             THEN /\ extracted_xrefs' = Append(extracted_xrefs, last'.meta.xref)
                  /\ extracted_files' = Append(extracted_files, last'.path)
                  /\ last'.meta.xref = from_tuple(image_list[img_index]).xref
                  /\ should_extract_image(config, last'.meta, last'.recovered)
             ELSE /\ extracted_xrefs' = extracted_xrefs
                  /\ extracted_files' = extracted_files
                  /\ disk' = disk
          /\ all_extracted_files' = all_extracted_files
          /\ last'.kind = "duplicate" <=>
                 /\ from_tuple(image_list[img_index]).ok
                 /\ from_tuple(image_list[img_index]).xref \in SeqToSet(extracted_xrefs)
          /\ (last'.kind \in {"filtered", "recover_error", "store_error", "stored"}) =>
                 tries'[last'.meta.xref].recovers = tries[last'.meta.xref].recovers + 1]_vars

\* An xref whose first reference failed or was rejected was recovered again
\* at a later reference and stored then.
C29_Witness ==
    /\ method = "extract"
    /\ last.kind = "stored"
    /\ tries[last.meta.xref].kind \in {"filtered", "recover_error", "store_error"}
    /\ tries[last.meta.xref].recovers = 2
    /\ tries[last.meta.xref].stores = 1
    /\ extracted_xrefs = <<last.meta.xref>>

\* The bounding box of the call's entry and the text box computed for its
\* label both have a positive width and a positive height.
PositiveBoxes ==
    LET box == text_box(call.wm, call.entry, CallLines)
    IN  /\ call.entry.bbox_width > 0
        /\ call.entry.bbox_height > 0
        /\ box.x1 - box.x0 > 0
        /\ box.y1 - box.y0 > 0

\* C30: when the bounding box and the computed text box have positive
\* widths and heights, the clamped box is not empty and add_watermark_to_image
\* does not leave through the 'outside image bounds' return: it issues a draw
\* call, on a box inside both, which is the bounding box itself when the
\* image is smaller than the label.  The return is taken only (and then
\* always) when one of the two has a width or height that is not positive.
C30_ClampedBoxNotEmpty ==
    ret.done =>
        LET box == text_box(call.wm, call.entry, CallLines)
            img == image_rect(call.entry)
            clip == RectAnd(box, img)
        IN  /\ PositiveBoxes =>
                   /\ ~is_empty(clip)
                   /\ ret.out.draws # <<>>
                   /\ Inside(clip, img)
                   /\ Inside(clip, box)
                   /\ \A i \in 1..Len(ret.out.draws) : ret.out.draws[i].rect = clip
                   /\ Inside(img, box) => clip = img
            /\ (~ret.out.ok /\ ret.out.draws = <<>>) <=> ~PositiveBoxes

\* An image smaller than its label, off the page's edge, was watermarked on
\* its whole bounding box.
C30_Witness ==
    /\ ret.done
    /\ ret.out.ok
    /\ PositiveBoxes
    /\ call.entry.bbox_x > 0
    /\ call.entry.bbox_width = 1
    /\ call.entry.bbox_height = 1
    /\ text_box(call.wm, call.entry, CallLines).x0 < image_rect(call.entry).x0
    /\ text_box(call.wm, call.entry, CallLines).y0 < image_rect(call.entry).y0
    /\ ret.out.draws[1].rect = image_rect(call.entry)

====
